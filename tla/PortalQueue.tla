---------------------------- MODULE PortalQueue ----------------------------
(***************************************************************************)
(* Publishing a document through the MCP server: the publish-document       *)
(* handler (publish-document.ts), which stores the files, saves the row,    *)
(* stamps it with the idempotency key and queues it, and the in-memory      *)
(* queue of portal documents (portal-doc-queue.ts), which is lost in a      *)
(* crash and filled from the database at the next start.                    *)
(*                                                                          *)
(* A request is the identity of its document (coreDocId), of its directory  *)
(* and, unless it carries the portal id of an earlier one, of its row.      *)
(* There is one action per await of the handler and of the queue's init.    *)
(***************************************************************************)
EXTENDS Naturals, SequencesExt

CONSTANTS
    Request,        \* publish requests
    NoKey,          \* no idempotency key
    KeyOf,          \* idempotency key of a request (scoped to its user), or NoKey
    PortalId,       \* portal_document_id and version of a request
    MaxQueue,       \* MAX_QUEUE_SIZE
    MaxConcurrent,  \* MAX_CONCURRENT
    Faults          \* what may fail, a subset of FaultKinds

FaultKinds == {"crash", "archive", "save", "key", "drop", "rm", "init"}

ASSUME QueueAssumption ==
    /\ KeyOf \in [Request -> {KeyOf[r] : r \in Request}]
    /\ PortalId \in [Request -> {PortalId[r] : r \in Request}]
    /\ MaxQueue \in Nat \ {0}
    /\ MaxConcurrent \in Nat \ {0}
    /\ Faults \subseteq FaultKinds

VARIABLES
    \* the handlers: control and HTTP answer
    pc, reply,
    \* PostgreSQL: rows, their key, their directory, the order of creation
    row, keyed, path, born,
    \* the storage box: directories of documents, those that could not be removed
    files, stuck,
    \* the queue: waiting, in execution, what init still has to load, its state
    queue, working, found, boot

handlers == <<pc, reply>>
db       == <<row, keyed, path, born>>
memory   == <<queue, working, found, boot>>
storage  == <<files, stuck>>
vars     == <<handlers, db, storage, memory>>

PC     == {"new", "checked", "stored", "saved", "keyed", "lost", "dropped", "error", "done"}
Answers == {"none", "accepted", "full", "replay", "rejected", "internal"}
Status == {"none", "downloaded", "processing", "settled"}
Boot   == {"down", "select", "load", "ready", "dead"}

(* An execution of the pipeline, and whether it has set the status yet. *)
Execution == [doc : Request, begun : BOOLEAN]

(* Every variable has its type. *)
TypeOK ==
    /\ pc \in [Request -> PC]
    /\ reply \in [Request -> Answers]
    /\ row \in [Request -> Status]
    /\ keyed \in SUBSET Request
    /\ path \in [Request -> Request]
    /\ born \in Seq(Request)
    /\ files \in SUBSET Request
    /\ stuck \in SUBSET Request
    /\ queue \in Seq(Request)
    /\ working \in Seq(Execution)
    /\ found \in Seq(Request)
    /\ boot \in Boot

-----------------------------------------------------------------------------
up == boot # "down"

Existing == {r \in Request : row[r] # "none"}

SameKey(r, q) == KeyOf[r] # NoKey /\ KeyOf[q] = KeyOf[r]

(* The row that ON CONFLICT (source, source_id, version) finds. *)
Twins(r) == {q \in Existing : PortalId[q] = PortalId[r]}

Goto(r, label) == pc' = [pc EXCEPT ![r] = label]

Reply(r, answer) ==
    /\ reply' = [reply EXCEPT ![r] = answer]
    /\ Goto(r, "done")

Min2(a, b) == IF a < b THEN a ELSE b

(* drain, with the queue q and the executions w: fill the free slots. *)
Drain(q, w) ==
    LET n == Min2(MaxConcurrent - Len(w), Len(q))
    IN  /\ queue' = SubSeq(q, n + 1, Len(q))
        /\ working' = w \o [i \in 1..n |-> [doc |-> q[i], begun |-> FALSE]]

-----------------------------------------------------------------------------
(* rm(canonicalDir).catch(() => {}), where dirs is what the storage box holds:
   who removes a directory in vain is not told. *)
RemoveDir(r, dirs) ==
    \/ files' = dirs \ {r} /\ UNCHANGED stuck
    \/ "rm" \in Faults /\ r \in dirs
       /\ files' = dirs /\ stuck' = stuck \cup {r}

(* The handler. *)

(* The checks before anything is stored, the pre-check of the key last. *)
PreCheck(r) ==
    /\ up /\ pc[r] = "new"
    /\ \/ Reply(r, "rejected")
       \/ /\ \E q \in keyed : SameKey(r, q)
          /\ Reply(r, "replay")
       \/ /\ ~\E q \in keyed : SameKey(r, q)
          /\ Goto(r, "checked")
          /\ UNCHANGED reply
    /\ UNCHANGED <<db, storage, memory>>

(* materializeArchive; what it has made of a bad archive is removed. *)
Materialize(r) ==
    /\ pc[r] = "checked"
    /\ \/ /\ files' = files \cup {r}
          /\ Goto(r, "stored")
          /\ UNCHANGED <<reply, stuck>>
       \/ /\ "archive" \in Faults
          /\ Reply(r, "rejected")
          /\ RemoveDir(r, files \cup {r})
    /\ UNCHANGED <<db, memory>>

(* documentStore.save: a new row, or the row of the same portal document
   takes the new content and is 'downloaded' again. *)
Save(r) ==
    /\ pc[r] = "stored"
    /\ LET id == IF Twins(r) = {} THEN r ELSE CHOOSE q \in Twins(r) : TRUE
       IN  /\ row' = [row EXCEPT ![id] = "downloaded"]
           /\ path' = [path EXCEPT ![id] = r]
           /\ born' = IF id = r THEN Append(born, r) ELSE born
    /\ Goto(r, "saved")
    /\ UNCHANGED <<reply, keyed, storage, memory>>

\* Mutated form: the unique index does not cover the key.
SetKeyAnyway(r) ==
    /\ pc[r] = "saved"
    /\ keyed' = IF r \in Existing THEN keyed \cup {r} ELSE keyed
    /\ Goto(r, "keyed")
    /\ UNCHANGED <<reply, row, path, born, storage, memory>>

(* UPDATE ... WHERE id = coreDocId: stamps the row, finds none, or runs into
   the unique index. *)
SetKey(r) ==
    /\ pc[r] = "saved"
    /\ IF r \in Existing /\ \E q \in keyed : SameKey(r, q)
       THEN Goto(r, "lost") /\ UNCHANGED keyed
       ELSE /\ keyed' = IF r \in Existing /\ KeyOf[r] # NoKey THEN keyed \cup {r} ELSE keyed
            /\ Goto(r, "keyed")
    /\ UNCHANGED <<reply, row, path, born, storage, memory>>

\* Mutated form: the row is deleted by its key.
DropRowByKey(r) ==
    /\ pc[r] = "lost"
    /\ row' = [q \in Request |-> IF SameKey(r, q) THEN "none" ELSE row[q]]
    /\ keyed' = {q \in keyed : ~SameKey(r, q)}
    /\ Goto(r, "dropped")
    /\ UNCHANGED <<reply, path, born, storage, memory>>

(* The race for the key is lost: delete the row, a failure is swallowed. *)
DropRow(r) ==
    /\ pc[r] = "lost"
    /\ \/ row' = [row EXCEPT ![r] = "none"]
       \/ "drop" \in Faults /\ UNCHANGED row
    /\ Goto(r, "dropped")
    /\ UNCHANGED <<reply, keyed, path, born, storage, memory>>

\* Mutated form: the directory of the lost request stays.
ReplayKeepsFiles(r) ==
    /\ pc[r] = "dropped"
    /\ Reply(r, "replay")
    /\ UNCHANGED <<db, storage, memory>>

(* ... then its directory, and answer with the winner. *)
Replay(r) ==
    /\ pc[r] = "dropped"
    /\ RemoveDir(r, files)
    /\ Reply(r, "replay")
    /\ UNCHANGED <<db, memory>>

(* Enqueue and answer.  A queue that is not ready yet is not told at all. *)
Answer(r) ==
    /\ pc[r] = "keyed"
    /\ IF boot # "ready" THEN Reply(r, "accepted") /\ UNCHANGED <<queue, working>>
       ELSE IF Len(queue) >= MaxQueue THEN Reply(r, "full") /\ UNCHANGED <<queue, working>>
       ELSE Drain(Append(queue, r), working) /\ Reply(r, "accepted")
    /\ UNCHANGED <<db, storage, found, boot>>

(* A statement throws after the directory was made, in part at least. *)
Throws(r) ==
    /\ \/ "archive" \in Faults /\ pc[r] = "checked"
       \/ "save" \in Faults /\ pc[r] = "stored"
       \/ "key" \in Faults /\ pc[r] = "saved"
       \/ "drop" \in Faults /\ pc[r] = "dropped"
    /\ Goto(r, "error")
    /\ files' = files \cup {r}
    /\ UNCHANGED <<reply, db, stuck, memory>>

(* The outer catch block: remove the directory, answer 500. *)
Fail(r) ==
    /\ pc[r] = "error"
    /\ RemoveDir(r, files)
    /\ Reply(r, "internal")
    /\ UNCHANGED <<db, memory>>

-----------------------------------------------------------------------------
(* The queue. *)

(* init: the portal documents in 'downloaded', oldest first, up to a limit. *)
Select ==
    /\ boot = "select"
    /\ LET downloaded == SelectSeq(born, LAMBDA r : row[r] = "downloaded")
       IN  found' = SubSeq(downloaded, 1, Min2(MaxQueue, Len(downloaded)))
    /\ boot' = "load"
    /\ UNCHANGED <<handlers, db, storage, queue, working>>

(* ... loaded one by one. *)
Load ==
    /\ boot = "load" /\ found # <<>>
    /\ queue' = IF Head(found) \in Existing THEN Append(queue, Head(found)) ELSE queue
    /\ found' = Tail(found)
    /\ UNCHANGED <<handlers, db, storage, working, boot>>

StartQueue ==
    /\ boot = "load" /\ found = <<>>
    /\ boot' = "ready"
    /\ Drain(queue, working)
    /\ UNCHANGED <<handlers, db, storage, found>>

(* No API key, or a statement of init throws: no queue until the next start. *)
BootFails ==
    /\ "init" \in Faults
    /\ boot \in {"select", "load"}
    /\ boot' = "dead"
    /\ UNCHANGED <<handlers, db, storage, queue, working, found>>

(* processOneDoc sets the status of the row, if there is one ... *)
Begin(i) ==
    /\ ~working[i].begun
    /\ working' = [working EXCEPT ![i].begun = TRUE]
    /\ row' = IF working[i].doc \in Existing
              THEN [row EXCEPT ![working[i].doc] = "processing"] ELSE row
    /\ UNCHANGED <<handlers, keyed, path, born, storage, queue, found, boot>>

\* Mutated form: the slot is given back, but nobody takes it.
FinishNoDrain(i) ==
    /\ working[i].begun
    /\ row' = IF working[i].doc \in Existing
              THEN [row EXCEPT ![working[i].doc] = "settled"] ELSE row
    /\ working' = RemoveAt(working, i)
    /\ UNCHANGED <<handlers, keyed, path, born, storage, queue, found, boot>>

(* ... and ends in 'ready', 'failed' or 'duplicate'; the slot is free. *)
Finish(i) ==
    /\ working[i].begun
    /\ row' = IF working[i].doc \in Existing
              THEN [row EXCEPT ![working[i].doc] = "settled"] ELSE row
    /\ Drain(queue, RemoveAt(working, i))
    /\ UNCHANGED <<handlers, keyed, path, born, storage, found, boot>>

-----------------------------------------------------------------------------
Crash ==
    /\ "crash" \in Faults
    /\ up
    /\ boot' = "down"
    /\ queue' = <<>> /\ working' = <<>> /\ found' = <<>>
    /\ pc' = [r \in Request |-> IF pc[r] = "new" THEN "new" ELSE "done"]
    /\ UNCHANGED <<reply, db, storage>>

(* The server listens as soon as init has been called. *)
Restart ==
    /\ ~up
    /\ boot' = "select"
    /\ UNCHANGED <<handlers, db, storage, queue, working, found>>

Init ==
    /\ pc = [r \in Request |-> "new"]
    /\ reply = [r \in Request |-> "none"]
    /\ row = [r \in Request |-> "none"]
    /\ keyed = {}
    /\ path = [r \in Request |-> r]
    /\ born = <<>>
    /\ files = {} /\ stuck = {}
    /\ queue = <<>> /\ working = <<>> /\ found = <<>>
    /\ boot = "select"

HandlerStep(r) ==
    \/ Materialize(r) \/ Save(r) \/ SetKey(r) \/ DropRow(r) \/ Replay(r)
    \/ Answer(r) \/ Throws(r) \/ Fail(r)

BootStep == Select \/ Load \/ StartQueue \/ BootFails

WorkStep(i) == Begin(i) \/ Finish(i)

Next ==
    \/ \E r \in Request : PreCheck(r) \/ HandlerStep(r)
    \/ BootStep
    \/ \E i \in DOMAIN working : WorkStep(i)
    \/ Crash \/ Restart

(* A handler, the start of the queue and the executions go on; nobody has to
   send a request. *)
Fairness ==
    /\ \A r \in Request : WF_vars(HandlerStep(r))
    /\ WF_vars(BootStep)
    /\ WF_vars(\E i \in DOMAIN working : WorkStep(i))

Spec     == Init /\ [][Next]_vars
FairSpec == Spec /\ Fairness

-----------------------------------------------------------------------------
(* Properties. *)

(* One submission is kept once: of the requests with one idempotency key, at
   most one is answered with its document, however they race, fail or are
   repeated after a crash (publish-document.ts:518-520). *)
Kept == {"accepted", "full"}
AcceptedOnce ==
    \A r, q \in Request : SameKey(r, q) /\ reply[r] \in Kept /\ reply[q] \in Kept => r = q

(* Answer, row and directory agree: what is answered with a document has both,
   "202/queue_full keep the doc" (publish-document.ts:584), and what is refused
   leaves no directory, "so storagebox doesn't accumulate orphaned eprints"
   (publish-document.ts:579-580), except one that could not be removed, whoever
   came first and whatever else failed. *)
AnswerMeetsDisk ==
    \A r \in Request :
        /\ reply[r] \in Kept => r \in Existing /\ path[r] \in files
        /\ reply[r] \in {"replay", "rejected", "internal"} /\ r \in files => r \in stuck

(* A document that waits in a queue that works gets a slot. *)
Waiting(r) == boot = "ready" /\ r \in ToSet(queue)
Drained == \A r \in Request : Waiting(r) ~> ~Waiting(r)
=============================================================================
