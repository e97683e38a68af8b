----------------------------- MODULE RunnerLock -----------------------------
(***************************************************************************)
(* The busy-lock of the ingest runner (RunnerService.ts): the commands that *)
(* start a run (ingest, registry-update, retry, doctor --fix), the stop     *)
(* command, the stages of a run and the documents it has in flight.         *)
(*                                                                          *)
(* The service is one Node.js process: what lies between two awaits happens *)
(* in one step, and at an await any other command may come in.  Its flags   *)
(* are `starting`, `currentRunId` and `stopRequested`, and the stopSignal   *)
(* object that each command replaces and the documents of its run look at.  *)
(* A command is issued at most once and is the identity of its run.         *)
(***************************************************************************)
EXTENDS FiniteSets

CONSTANTS
    Ingest, Update, Retry, Doctor,  \* commands, by kind
    Doc,                            \* documents
    None,                           \* no run
    Faults                          \* what may fail, a subset of FaultKinds

(* "insert": the INSERT of the run's row; "query": a statement of a run with
   no document in flight; "amid": a statement of the demand or the registry
   stage while documents are in flight; "write": the last UPDATE of the row. *)
FaultKinds == {"crash", "insert", "query", "amid", "write"}

Command == Ingest \cup Update \cup Retry \cup Doctor

ASSUME KindsAssumption ==
    /\ Ingest \cap Update = {} /\ Ingest \cap Retry = {} /\ Ingest \cap Doctor = {}
    /\ Update \cap Retry = {} /\ Update \cap Doctor = {} /\ Retry \cap Doctor = {}

ASSUME NoneAssumption == None \notin Command

ASSUME FaultsAssumption == Faults \subseteq FaultKinds

VARIABLES
    \* the flags of the service, and the command that made its stopSignal object
    starting, current, stopRequested, latest,
    \* the runs: control, outcome to be written, stopSignal objects
    pc, outcome, signal,
    \* the documents of a run: waiting, selected once, in flight
    queue, seen, exec,
    \* PostgreSQL: status of the documents, demanded ones, rows of pipeline_runs
    status, wanted, row,
    up,
    \* history: runs that a stop was accepted for, after they reset the flags
    told

flags == <<starting, current, stopRequested, latest>>
ctl   == <<pc, outcome, signal>>
work  == <<queue, seen, exec>>
db    == <<status, wanted, row>>
vars  == <<flags, ctl, work, db, up, told>>

Starting == {"select", "insert"}
Body     == {"reset", "backlog", "drain", "demand", "force", "drainForced", "window",
             "days", "fix"}
Closing  == {"final", "failing", "finally"}
PC       == {"new", "done"} \cup Starting \cup Body \cup Closing

DocStatus == {"listed", "downloaded", "inflight", "ready", "failed"}
RowStatus == {"none", "running", "completed", "stopped", "failed"}

(* Where a document in flight is: before its first step, in a step, between
   two steps, in its last step. *)
Phase == {"none", "entry", "step", "between", "last"}

(* Every variable has its type. *)
TypeOK ==
    /\ starting \in BOOLEAN /\ stopRequested \in BOOLEAN /\ up \in BOOLEAN
    /\ current \in Command \cup {None}
    /\ latest \in Command \cup {None}
    /\ pc \in [Command -> PC]
    /\ outcome \in [Command -> RowStatus]
    /\ signal \in [Command -> BOOLEAN]
    /\ queue \in [Command -> SUBSET Doc]
    /\ seen \in [Command -> SUBSET Doc]
    /\ exec \in [Command -> [Doc -> Phase]]
    /\ status \in [Doc -> DocStatus]
    /\ wanted \in SUBSET Doc
    /\ row \in [Command -> RowStatus]
    /\ told \in SUBSET Command

-----------------------------------------------------------------------------
isRunning == starting \/ current # None

InFlight(c) == {d \in Doc : exec[c][d] # "none"}
Quiet(c)    == InFlight(c) = {}

Goto(c, label) == pc' = [pc EXCEPT ![c] = label]

(* First control point of a run. *)
FirstStage(c) ==
    IF c \in Ingest THEN "backlog" ELSE IF c \in Retry THEN "reset"
    ELSE IF c \in Update THEN "days" ELSE "fix"

(* The documents of processAll look at the stopSignal of their run, the loops
   of the service at its flag. *)
Stopped(c) == IF pc[c] \in {"drain", "drainForced"} THEN signal[c] ELSE stopRequested

-----------------------------------------------------------------------------
(* Starting a run. *)

\* Mutated form: the busy claim is made when the row has been inserted.
ClaimLate(c) ==
    /\ up /\ pc[c] = "new" /\ ~isRunning
    /\ c \in Ingest \cup Update
    /\ stopRequested' = FALSE /\ latest' = c
    /\ Goto(c, "insert")
    /\ UNCHANGED <<starting, current, outcome, signal, work, db, up, told>>

(* ingest, registryUpdate: check, reset the stop flags and claim in one go. *)
Claim(c) ==
    /\ up /\ pc[c] = "new" /\ ~isRunning
    /\ c \in Ingest \cup Update
    /\ stopRequested' = FALSE /\ latest' = c
    /\ starting' = TRUE
    /\ Goto(c, "insert")
    /\ UNCHANGED <<current, outcome, signal, work, db, up, told>>

(* retry: check and claim; the stop flags are reset after its SELECTs. *)
ClaimRetry(c) ==
    /\ up /\ pc[c] = "new" /\ ~isRunning
    /\ c \in Retry
    /\ starting' = TRUE
    /\ Goto(c, "select")
    /\ UNCHANGED <<current, stopRequested, latest, outcome, signal, work, db, up, told>>

(* doctor --fix: check and reset, but no claim before the INSERT. *)
CheckDoctor(c) ==
    /\ up /\ pc[c] = "new" /\ ~isRunning
    /\ c \in Doctor
    /\ stopRequested' = FALSE /\ latest' = c
    /\ Goto(c, "insert")
    /\ UNCHANGED <<starting, current, outcome, signal, work, db, up, told>>

SelectRetryable(c) ==
    /\ pc[c] = "select"
    /\ \E S \in SUBSET {d \in Doc : status[d] \in {"failed", "downloaded"}} :
         /\ S # {}
         /\ queue' = [queue EXCEPT ![c] = S]
    /\ stopRequested' = FALSE /\ latest' = c
    /\ Goto(c, "insert")
    /\ UNCHANGED <<starting, current, outcome, signal, seen, exec, db, up, told>>

(* Nothing to retry, or a SELECT throws. *)
SelectThrows(c) ==
    /\ pc[c] = "select"
    /\ starting' = FALSE
    /\ Goto(c, "done")
    /\ UNCHANGED <<current, stopRequested, latest, outcome, signal, work, db, up, told>>

\* Mutated form: a stop that came in during the INSERT is forgotten.
InsertForgetsStop(c) ==
    /\ pc[c] = "insert"
    /\ row' = [row EXCEPT ![c] = "running"]
    /\ current' = c
    /\ starting' = (c \in Doctor /\ starting)
    /\ stopRequested' = FALSE
    /\ Goto(c, FirstStage(c))
    /\ UNCHANGED <<latest, outcome, signal, work, status, wanted, up, told>>

InsertRun(c) ==
    /\ pc[c] = "insert"
    /\ row' = [row EXCEPT ![c] = "running"]
    /\ current' = c
    /\ starting' = (c \in Doctor /\ starting)
    /\ Goto(c, FirstStage(c))
    /\ UNCHANGED <<stopRequested, latest, outcome, signal, work, status, wanted, up, told>>

\* Mutated form: the claim is kept, as without the finally block.
InsertKeepsClaim(c) ==
    /\ "insert" \in Faults
    /\ pc[c] = "insert"
    /\ queue' = [queue EXCEPT ![c] = {}]
    /\ Goto(c, "done")
    /\ UNCHANGED <<flags, outcome, signal, seen, exec, db, up, told>>

InsertThrows(c) ==
    /\ "insert" \in Faults
    /\ pc[c] = "insert"
    /\ starting' = (c \in Doctor /\ starting)
    /\ queue' = [queue EXCEPT ![c] = {}]
    /\ Goto(c, "done")
    /\ UNCHANGED <<current, stopRequested, latest, outcome, signal, seen, exec, db, up, told>>

-----------------------------------------------------------------------------
(* The stages of a run. *)

(* runRetry puts every selected document back to 'downloaded' first. *)
ResetOne(c) ==
    /\ pc[c] = "reset"
    /\ \/ \E d \in queue[c] \ seen[c] :
            /\ status' = [status EXCEPT ![d] = "downloaded"]
            /\ seen' = [seen EXCEPT ![c] = @ \cup {d}]
            /\ UNCHANGED pc
       \/ /\ queue[c] \subseteq seen[c]
          /\ Goto(c, "window")
          /\ UNCHANGED <<status, seen>>
    /\ UNCHANGED <<flags, outcome, signal, queue, exec, wanted, row, up, told>>

(* --downloaded-first: the backlog, as it is listed now. *)
ListBacklog(c) ==
    /\ pc[c] = "backlog" /\ ~stopRequested
    /\ queue' = [queue EXCEPT ![c] = {d \in Doc : status[d] = "downloaded"}]
    /\ Goto(c, "drain")
    /\ UNCHANGED <<flags, outcome, signal, seen, exec, db, up, told>>

(* claimNextDemandReindexDoc, and on with the claimed document at once. *)
ClaimDemanded(c) ==
    /\ pc[c] = "demand" /\ ~stopRequested
    /\ \E d \in wanted :
         /\ status[d] = "ready"
         /\ status' = [status EXCEPT ![d] = "downloaded"]
         /\ wanted' = wanted \ {d}
         /\ exec' = [exec EXCEPT ![c][d] = "entry"]
    /\ UNCHANGED <<flags, ctl, queue, seen, row, up, told>>

(* force_full: the abstract_only documents go back to 'downloaded', and what
   is downloaded now is processed. *)
ForceReset(c) ==
    /\ pc[c] = "force" /\ ~stopRequested
    /\ LET back == {d \in wanted : status[d] = "ready"}
       IN  /\ status' = [d \in Doc |-> IF d \in back THEN "downloaded" ELSE status[d]]
           /\ wanted' = wanted \ back
           /\ queue' = [queue EXCEPT ![c] = {d \in Doc : d \in back \/ status[d] = "downloaded"}]
    /\ Goto(c, "drainForced")
    /\ UNCHANGED <<flags, outcome, signal, seen, exec, row, up, told>>

(* The registry producer hands a selected document to the channel, after a
   download that may fail. *)
Produce(c) ==
    /\ pc[c] = "window" /\ c \in Ingest /\ ~stopRequested
    /\ \E d \in Doc \ seen[c] :
         /\ status[d] \in {"listed", "downloaded"}
         /\ seen' = [seen EXCEPT ![c] = @ \cup {d}]
         /\ \/ /\ status' = [status EXCEPT ![d] = "downloaded"]
               /\ queue' = [queue EXCEPT ![c] = @ \cup {d}]
            \/ status[d] = "listed" /\ UNCHANGED <<status, queue>>
    /\ UNCHANGED <<flags, ctl, exec, wanted, row, up, told>>

(* A waiting document gets a slot and is handed to the pipeline.  The consumer
   of the registry stage goes on even when the producer has thrown. *)
Take(c, d) ==
    /\ d \in queue[c]
    /\ pc[c] \notin {"insert", "reset"}
    /\ ~Stopped(c)
    /\ queue' = [queue EXCEPT ![c] = @ \ {d}]
    /\ exec' = [exec EXCEPT ![c][d] = "entry"]
    /\ UNCHANGED <<flags, ctl, seen, db, up, told>>

(* Stopped: what still waits is dropped. *)
Discard(c) ==
    /\ queue[c] # {}
    /\ pc[c] \notin {"insert", "reset"}
    /\ Stopped(c)
    /\ queue' = [queue EXCEPT ![c] = {}]
    /\ UNCHANGED <<flags, ctl, seen, exec, db, up, told>>

NextStage == [backlog |-> "demand", drain |-> "demand", demand |-> "force",
              force |-> "window", drainForced |-> "window"]

(* A stage is left when all its documents have settled; a stage that was not
   asked for is skipped. *)
Advance(c) ==
    /\ pc[c] \in DOMAIN NextStage
    /\ Quiet(c) /\ queue[c] = {}
    /\ Goto(c, NextStage[pc[c]])
    /\ UNCHANGED <<flags, outcome, signal, work, db, up, told>>

(* A statement throws, and the run is given up: with nothing in flight, or in
   the demand and the registry stage with documents still in flight. *)
QueryThrows(c) ==
    /\ \/ /\ "query" \in Faults
          /\ pc[c] \in Body \ {"days"}
          /\ Quiet(c) /\ (pc[c] # "reset" => queue[c] = {})
       \/ /\ "amid" \in Faults
          /\ pc[c] = "demand" \/ (pc[c] = "window" /\ c \in Ingest)
    /\ queue' = IF pc[c] = "reset" THEN [queue EXCEPT ![c] = {}] ELSE queue
    /\ Goto(c, "failing")
    /\ UNCHANGED <<flags, outcome, signal, seen, exec, db, up, told>>

-----------------------------------------------------------------------------
(* A document in flight: DocPipeline in five phases. *)

SetPhase(c, d, phase) == exec' = [exec EXCEPT ![c][d] = phase]

StepBegins(c, d) ==
    /\ ~signal[c]
    /\ \/ exec[c][d] = "entry"   /\ SetPhase(c, d, "step")
       \/ exec[c][d] = "between" /\ SetPhase(c, d, "last")
    /\ status' = [status EXCEPT ![d] = "inflight"]
    /\ UNCHANGED <<flags, ctl, queue, seen, wanted, row, up, told>>

StepEnds(c, d) ==
    /\ exec[c][d] = "step"
    /\ SetPhase(c, d, "between")
    /\ UNCHANGED <<flags, ctl, queue, seen, db, up, told>>

Settle(c, d) ==
    /\ \E s \in {"ready", "failed"} :
         /\ exec[c][d] = "last" \/ (exec[c][d] = "step" /\ s = "failed")
         /\ status' = [status EXCEPT ![d] = s]
    /\ SetPhase(c, d, "none")
    /\ UNCHANGED <<flags, ctl, queue, seen, wanted, row, up, told>>

Suspend(c, d) ==
    /\ exec[c][d] \in {"entry", "between"} /\ signal[c]
    /\ status' = [status EXCEPT ![d] = "downloaded"]
    /\ SetPhase(c, d, "none")
    /\ UNCHANGED <<flags, ctl, queue, seen, wanted, row, up, told>>

-----------------------------------------------------------------------------
(* The end of a run. *)

\* Mutated form: the documents in flight are not awaited.
FinishEarly(c) ==
    /\ pc[c] \in {"window", "days", "fix"}
    /\ queue[c] = {}
    /\ \E s \in {"completed", "stopped", "failed"} :
         /\ stopRequested <=> s = "stopped"
         /\ s = "failed" => c \in Ingest    \* download failures in a burst
         /\ outcome' = [outcome EXCEPT ![c] = s]
    /\ Goto(c, "final")
    /\ UNCHANGED <<flags, signal, work, db, up, told>>

Finish(c) ==
    /\ pc[c] \in {"window", "days", "fix"}
    /\ Quiet(c) /\ queue[c] = {}
    /\ \E s \in {"completed", "stopped", "failed"} :
         /\ stopRequested <=> s = "stopped"
         /\ s = "failed" => c \in Ingest    \* download failures in a burst
         /\ outcome' = [outcome EXCEPT ![c] = s]
    /\ Goto(c, "final")
    /\ UNCHANGED <<flags, signal, work, db, up, told>>

WriteOutcome(c) ==
    /\ pc[c] = "final"
    /\ \/ row' = [row EXCEPT ![c] = outcome[c]] /\ Goto(c, "finally")
       \/ "write" \in Faults /\ Goto(c, "failing") /\ UNCHANGED row
    /\ UNCHANGED <<flags, outcome, signal, work, status, wanted, up, told>>

WriteFailed(c) ==
    /\ pc[c] = "failing"
    /\ \/ row' = [row EXCEPT ![c] = "failed"]
       \/ "write" \in Faults /\ UNCHANGED row
    /\ Goto(c, "finally")
    /\ UNCHANGED <<flags, outcome, signal, work, status, wanted, up, told>>

(* The finally block, whoever set the flags. *)
Release(c) ==
    /\ pc[c] = "finally"
    /\ current' = None
    /\ stopRequested' = FALSE
    /\ seen' = [seen EXCEPT ![c] = {}]    \* local to the run, as is its outcome
    /\ outcome' = [outcome EXCEPT ![c] = "none"]
    /\ Goto(c, "done")
    /\ UNCHANGED <<starting, latest, signal, queue, exec, db, up, told>>

-----------------------------------------------------------------------------
(* Around the runs. *)

\* Mutated form: the flag is set, but not the object the documents look at.
StopFlagOnly ==
    /\ up /\ isRunning
    /\ stopRequested' = TRUE
    /\ told' = told \cup {c \in Command : pc[c] \in {"insert"} \cup Body}
    /\ UNCHANGED <<starting, current, latest, ctl, work, db, up>>

(* stop: refused when nothing runs, else it is for the runs that have not
   come to their end.  One that comes in while a retry is still selecting its
   documents is accepted, too, but retry resets the flags afterwards. *)
Stop ==
    /\ up /\ isRunning
    /\ stopRequested' = TRUE
    /\ signal' = [c \in Command |-> signal[c] \/ c = latest]
    /\ told' = told \cup {c \in Command : pc[c] \in {"insert"} \cup Body}
    /\ UNCHANGED <<starting, current, latest, pc, outcome, work, db, up>>

Crash ==
    /\ "crash" \in Faults
    /\ up /\ up' = FALSE
    /\ starting' = FALSE /\ current' = None /\ stopRequested' = FALSE /\ latest' = None
    /\ pc' = [c \in Command |-> IF pc[c] = "new" THEN "new" ELSE "done"]
    /\ queue' = [c \in Command |-> {}]
    /\ seen' = [c \in Command |-> {}]
    /\ exec' = [c \in Command |-> [d \in Doc |-> "none"]]
    /\ outcome' = [c \in Command |-> "none"]
    /\ UNCHANGED <<signal, db, told>>

\* Mutated form: the rows of interrupted runs are left as they are.
RestartKeepsRows ==
    /\ ~up /\ up' = TRUE
    /\ status' = [d \in Doc |-> IF status[d] = "inflight" THEN "downloaded" ELSE status[d]]
    /\ UNCHANGED <<flags, ctl, work, wanted, row, told>>

Restart ==
    /\ ~up /\ up' = TRUE
    /\ status' = [d \in Doc |-> IF status[d] = "inflight" THEN "downloaded" ELSE status[d]]
    /\ row' = [c \in Command |-> IF row[c] = "running" THEN "failed" ELSE row[c]]
    /\ UNCHANGED <<flags, ctl, work, wanted, told>>

-----------------------------------------------------------------------------
Init ==
    /\ starting = FALSE /\ current = None /\ stopRequested = FALSE /\ latest = None
    /\ pc = [c \in Command |-> "new"]
    /\ outcome = [c \in Command |-> "none"]
    /\ signal = [c \in Command |-> FALSE]
    /\ queue = [c \in Command |-> {}]
    /\ seen = [c \in Command |-> {}]
    /\ exec = [c \in Command |-> [d \in Doc |-> "none"]]
    /\ status \in [Doc -> {"listed", "downloaded", "ready", "failed"}]
    /\ wanted \in SUBSET {d \in Doc : status[d] = "ready"}
    /\ row = [c \in Command |-> "none"]
    /\ up = TRUE
    /\ told = {}

Start(c) == Claim(c) \/ ClaimRetry(c) \/ CheckDoctor(c)

RunStep(c) ==
    \/ SelectRetryable(c) \/ SelectThrows(c) \/ InsertRun(c) \/ InsertThrows(c)
    \/ ResetOne(c) \/ ListBacklog(c) \/ ClaimDemanded(c) \/ ForceReset(c)
    \/ Produce(c) \/ Discard(c) \/ Advance(c) \/ QueryThrows(c)
    \/ Finish(c) \/ WriteOutcome(c) \/ WriteFailed(c) \/ Release(c)

DocStep(c, d) ==
    StepBegins(c, d) \/ StepEnds(c, d) \/ Settle(c, d) \/ Suspend(c, d)

Next ==
    \/ \E c \in Command : Start(c) \/ RunStep(c)
    \/ \E c \in Command, d \in Doc : Take(c, d) \/ DocStep(c, d)
    \/ Stop \/ Crash \/ Restart

(* A run of a live process goes on, or one of its documents does.  Nobody has
   to start or to stop a run. *)
Progress(c) == RunStep(c) \/ \E d \in Doc : Take(c, d) \/ DocStep(c, d)

Fairness == \A c \in Command : WF_vars(Progress(c))

Spec     == Init /\ [][Next]_vars
FairSpec == Spec /\ Fairness

-----------------------------------------------------------------------------
(* Properties. *)

Writing(c) == pc[c] \in Body \/ ~Quiet(c)

(* RunnerService.ts:655-656: "same busy-lock (either ingest, registry-update,
   or a doctor fix -- never two writers)". *)
NeverTwoWriters == \A c, e \in Command : Writing(c) /\ Writing(e) => c = e

(* A live runner has at most one row of pipeline_runs in status 'running': a
   row never stays behind a run that has ended, nor behind a crash. *)
OneRunningRow ==
    up => \A c, e \in Command : row[c] = "running" /\ row[e] = "running" => c = e

(* After a stop was accepted for a run (told), none of its documents begins
   another step, and the run is not recorded as completed, also when the stop
   came during the INSERT of its row: "Stop requested -- waiting for in-flight
   documents to drain" (RunnerService.ts:499-502). *)
StopHolds ==
    [][\A c \in told :
         /\ \A d \in Doc :
              exec[c][d] \in {"entry", "between"} => exec'[c][d] \in {"none", exec[c][d]}
         /\ row[c] = "running" => row'[c] # "completed"]_vars

(* The runner does not stay busy: a run comes to its end and lets go. *)
LockReleased == isRunning ~> ~isRunning

-----------------------------------------------------------------------------
(* The runner implements SingleRun: a run holds it from its check to its
   finally block. *)

Active(c) == pc[c] \notin {"new", "done"}
holder  == IF \E c \in Command : Active(c) THEN CHOOSE c \in Command : Active(c) ELSE None
working == {d \in Doc : \E c \in Command : exec[c][d] # "none"}

Lock == INSTANCE SingleRun WITH Run <- Command

(* Every step of the runner is a step of SingleRun, or changes nothing of it. *)
Implements == Lock!Spec
=============================================================================
