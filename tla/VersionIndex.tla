--------------------------- MODULE VersionIndex ---------------------------
(***************************************************************************)
(* What a reader of a concept may find: the versions of a paper in          *)
(* PostgreSQL and in Qdrant.  An indexing of a version writes its chunk     *)
(* rows and points and then takes the latest flag from the versions below   *)
(* it (indexer-step.ts); an administrator deletes and restores documents    *)
(* (admin-routes.ts, soft-delete-store.ts); the reconciliation loop of the  *)
(* runner repeats what did not reach Qdrant (reconciliation-loop.ts).       *)
(* There is one action per statement or call to a store.                    *)
(*                                                                          *)
(* The rows of a version have one flag, and so have its points: every       *)
(* statement sets all of a document's.                                      *)
(***************************************************************************)
EXTENDS Naturals, FiniteSets, SequencesExt

CONSTANTS
    Document,       \* document ids, all of one concept
    First,          \* the first version, in Document
    AdminDoc,       \* bound: the documents an administrator acts on
    BatchLimit,     \* SOFT_DELETE_RECONCILE_BATCH
    MaxIndexings,   \* bound: executions of the indexer
    MaxAdmin,       \* bound: admin requests
    MaxFaults       \* bound: calls that fail

ASSUME VersionAssumption ==
    /\ First \in Document /\ AdminDoc \subseteq Document /\ IsFiniteSet(Document)
    /\ BatchLimit \in Nat \ {0}
    /\ {MaxIndexings, MaxAdmin, MaxFaults} \subseteq Nat

VARIABLES
    \* PostgreSQL: documents.version (0: no row yet), the flag of the chunk
    \* rows, the deleted documents by deleted_at, those with a reason
    version, rows, tombs, reason,
    \* Qdrant: whether there are points, and their flags
    points,
    \* the indexers: control, the older documents still to be flagged
    pc, todo,
    \* flags of admin requests on their way to Qdrant
    flips,
    \* the reconciliation: its direction, the documents still to be sent
    tick, batch,
    \* counters of the bounds
    indexings, admin, faults,
    \* history: an indexing met a version as new or newer; a point flag was lost
    disorder, lost

postgres == <<version, rows, tombs, reason>>
indexer  == <<pc, todo>>
loop     == <<tick, batch>>
bounds   == <<indexings, admin, faults>>
history  == <<disorder, lost>>
storeVars == <<postgres, points, indexer, flips, loop, bounds, history>>

NoPoints == [there |-> FALSE, latest |-> FALSE, deleted |-> FALSE]

(* Every variable has its type, and no indexing flags its own document. *)
VersionsTypeOK ==
    /\ version \in [Document -> 0..Cardinality(Document)]
    /\ rows \in [Document -> {"none", "latest", "old"}]
    /\ tombs \in Seq(Document) /\ reason \in SUBSET Document
    /\ points \in [Document -> [there : BOOLEAN, latest : BOOLEAN, deleted : BOOLEAN]]
    /\ pc \in [Document -> {"idle", "upsert", "select", "update", "flag"}]
    /\ todo \in [Document -> SUBSET Document] /\ \A d \in Document : d \notin todo[d]
    /\ flips \in SUBSET (Document \X BOOLEAN)
    /\ tick \in {"idle", "deleted", "restored"} /\ batch \in Seq(Document)
    /\ indexings \in 0..MaxIndexings /\ admin \in 0..MaxAdmin /\ faults \in 0..MaxFaults
    /\ disorder \in BOOLEAN /\ lost \in BOOLEAN

-----------------------------------------------------------------------------
Created == {d \in Document : version[d] > 0}
Deleted == ToSet(tombs)

Older(d) == {e \in Created : version[e] < version[d]}

Goto(d, label) == pc' = [pc EXCEPT ![d] = label]

Fails == faults < MaxFaults /\ faults' = faults + 1

(* setPayload of one flag for the points of a document, if there are any. *)
WithLatest(p, value)  == IF p.there THEN [p EXCEPT !.latest = value] ELSE p
WithDeleted(p, value) == IF p.there THEN [p EXCEPT !.deleted = value] ELSE p

-----------------------------------------------------------------------------
(* create_new_version: the version after that of the named document, which
   need not be the newest. *)
CreateVersion(d, previous) ==
    /\ version[d] = 0 /\ previous \in Created
    /\ version' = [version EXCEPT ![d] = version[previous] + 1]
    /\ UNCHANGED <<rows, tombs, reason, points, indexer, flips, loop, bounds, history>>

-----------------------------------------------------------------------------
(* IndexerStep.process. *)

(* The chunk rows of the document: new ones, or those an earlier execution
   has left.  The points go with the old rows, unless the delete fails. *)
IndexRows(d) ==
    /\ pc[d] = "idle" /\ d \in Created /\ indexings < MaxIndexings
    /\ indexings' = indexings + 1
    /\ disorder' = (disorder \/ \E e \in Created \ {d} :
                        pc[e] # "idle" \/ (version[e] >= version[d] /\ rows[e] # "none"))
    /\ \/ /\ rows' = [rows EXCEPT ![d] = "latest"]
          /\ \/ points' = [points EXCEPT ![d] = NoPoints] /\ UNCHANGED faults
             \/ Fails /\ UNCHANGED points
       \/ rows[d] # "none" /\ UNCHANGED <<rows, points, faults>>
    /\ Goto(d, "upsert")
    /\ UNCHANGED <<version, tombs, reason, todo, flips, loop, admin, lost>>

\* Mutated form: points that cannot be sent are logged and the indexing goes on.
UpsertSwallows(d) ==
    /\ pc[d] = "upsert"
    /\ Goto(d, IF version[d] > 1 THEN "select" ELSE "idle")
    /\ UNCHANGED <<postgres, points, todo, flips, loop, bounds, history>>

(* upsertChunks: the points are latest and not deleted, whatever the document
   is; only a version above the first goes on. *)
Upsert(d) ==
    /\ pc[d] = "upsert"
    /\ points' = [points EXCEPT ![d] = [there |-> TRUE, latest |-> TRUE, deleted |-> FALSE]]
    /\ Goto(d, IF version[d] > 1 THEN "select" ELSE "idle")
    /\ UNCHANGED <<postgres, todo, flips, loop, bounds, history>>

\* Mutated form: only the version before is looked up.
SelectPrevious(d) ==
    /\ pc[d] = "select"
    /\ todo' = [todo EXCEPT ![d] = {e \in Older(d) : version[e] + 1 = version[d]}]
    /\ Goto(d, IF todo'[d] = {} THEN "idle" ELSE "update")
    /\ UNCHANGED <<postgres, points, flips, loop, bounds, history>>

(* deactivateOldVersionChunks: the older versions of the concept. *)
SelectOlder(d) ==
    /\ pc[d] = "select"
    /\ todo' = [todo EXCEPT ![d] = Older(d)]
    /\ Goto(d, IF todo'[d] = {} THEN "idle" ELSE "update")
    /\ UNCHANGED <<postgres, points, flips, loop, bounds, history>>

UpdateRows(d) ==
    /\ pc[d] = "update"
    /\ rows' = [e \in Document |-> IF e \in todo[d] /\ rows[e] = "latest" THEN "old" ELSE rows[e]]
    /\ Goto(d, "flag")
    /\ UNCHANGED <<version, tombs, reason, points, todo, flips, loop, bounds, history>>

(* One old document after the other; a failure is only warned about. *)
FlagPoints(d, e) ==
    /\ pc[d] = "flag" /\ e \in todo[d]
    /\ \/ /\ points' = [points EXCEPT ![e] = WithLatest(@, FALSE)]
          /\ UNCHANGED <<faults, lost>>
       \/ /\ Fails
          /\ lost' = TRUE
          /\ UNCHANGED points
    /\ todo' = [todo EXCEPT ![d] = @ \ {e}]
    /\ Goto(d, IF todo'[d] = {} THEN "idle" ELSE "flag")
    /\ UNCHANGED <<postgres, flips, loop, indexings, admin, disorder>>

(* A statement throws, or the process dies: the execution is over. *)
IndexFails(d) ==
    /\ pc[d] # "idle"
    /\ Fails
    /\ lost' = TRUE
    /\ Goto(d, "idle")
    /\ todo' = [todo EXCEPT ![d] = {}]
    /\ UNCHANGED <<postgres, points, flips, loop, indexings, admin, disorder>>

-----------------------------------------------------------------------------
(* The admin routes: a transaction in PostgreSQL, then the flag in Qdrant. *)

SoftDelete(d) ==
    /\ admin < MaxAdmin /\ d \in (AdminDoc \cap Created) \ Deleted
    /\ admin' = admin + 1
    /\ tombs' = Append(tombs, d)
    /\ reason' = reason \cup {d}
    /\ flips' = flips \cup {<<d, TRUE>>}
    /\ UNCHANGED <<version, rows, points, indexer, loop, indexings, faults, history>>

\* Mutated form: the restore clears the history of the deletion, too.
RestoreClears(d) ==
    /\ admin < MaxAdmin /\ d \in Deleted
    /\ admin' = admin + 1
    /\ tombs' = SelectSeq(tombs, LAMBDA e : e # d)
    /\ reason' = reason \ {d}
    /\ flips' = flips \cup {<<d, FALSE>>}
    /\ UNCHANGED <<version, rows, points, indexer, loop, indexings, faults, history>>

(* The reason of the deletion stays. *)
Restore(d) ==
    /\ admin < MaxAdmin /\ d \in Deleted
    /\ admin' = admin + 1
    /\ tombs' = SelectSeq(tombs, LAMBDA e : e # d)
    /\ flips' = flips \cup {<<d, FALSE>>}
    /\ UNCHANGED <<version, rows, reason, points, indexer, loop, indexings, faults, history>>

(* setDocumentDeleted of a request; requests overtake one another.  When it
   fails the answer is 500 and the loop has to do it. *)
Flip(d, value) ==
    /\ <<d, value>> \in flips
    /\ flips' = flips \ {<<d, value>>}
    /\ \/ points' = [points EXCEPT ![d] = WithDeleted(@, value)] /\ UNCHANGED faults
       \/ Fails /\ UNCHANGED points
    /\ UNCHANGED <<postgres, indexer, loop, indexings, admin, history>>

-----------------------------------------------------------------------------
(* The reconciliation loop; a tick is skipped while one is running. *)

Cut(s) == SubSeq(s, 1, IF Len(s) < BatchLimit THEN Len(s) ELSE BatchLimit)

(* Each query takes so many documents, whether their flags need it or not: of
   the deleted ones the last, of those that have a reason and are not deleted
   the first by id.  The others are never looked at. *)
LastDeleted   == Cut(Reverse(tombs))
FirstRestored == Cut(SetToSeq(reason \ Deleted))

\* Mutated form: the oldest deletions first.
TickDeletedOldest ==
    /\ tick = "idle"
    /\ tick' = "deleted" /\ batch' = Cut(tombs)
    /\ UNCHANGED <<postgres, points, indexer, flips, bounds, history>>

TickDeleted ==
    /\ tick = "idle"
    /\ tick' = "deleted" /\ batch' = LastDeleted
    /\ UNCHANGED <<postgres, points, indexer, flips, bounds, history>>

TickRestored ==
    /\ tick = "deleted" /\ batch = <<>>
    /\ tick' = "restored" /\ batch' = FirstRestored
    /\ UNCHANGED <<postgres, points, indexer, flips, bounds, history>>

TickSends ==
    /\ batch # <<>>
    /\ LET value == tick = "deleted" IN
       \/ points' = [points EXCEPT ![Head(batch)] = WithDeleted(@, value)] /\ UNCHANGED faults
       \/ Fails /\ UNCHANGED points
    /\ batch' = Tail(batch)
    /\ UNCHANGED <<postgres, indexer, flips, tick, indexings, admin, history>>

TickEnds ==
    /\ tick = "restored" /\ batch = <<>>
    /\ tick' = "idle"
    /\ UNCHANGED <<postgres, points, indexer, flips, batch, bounds, history>>

-----------------------------------------------------------------------------
EmptyStores ==
    /\ version = [d \in Document |-> IF d = First THEN 1 ELSE 0]
    /\ rows = [d \in Document |-> "none"] /\ tombs = <<>> /\ reason = {}
    /\ points = [d \in Document |-> NoPoints]

(* Of each bound an execution may have a part only. *)
VersionsInit ==
    /\ EmptyStores
    /\ pc = [d \in Document |-> "idle"] /\ todo = [d \in Document |-> {}]
    /\ flips = {} /\ tick = "idle" /\ batch = <<>>
    /\ indexings \in 0..MaxIndexings /\ admin \in 0..MaxAdmin /\ faults \in 0..MaxFaults
    /\ disorder = FALSE /\ lost = FALSE

Indexer(d) ==
    \/ IndexRows(d) \/ Upsert(d) \/ SelectOlder(d) \/ UpdateRows(d) \/ IndexFails(d)
    \/ \E e \in Document : FlagPoints(d, e)

Admin(d) ==
    \/ SoftDelete(d) \/ Restore(d)
    \/ \E value \in BOOLEAN : Flip(d, value)

Loop == TickDeleted \/ TickRestored \/ TickSends \/ TickEnds

VersionsNext ==
    \/ \E d \in Document : Indexer(d) \/ Admin(d) \/ \E previous \in Document : CreateVersion(d, previous)
    \/ Loop

VersionsSpec == VersionsInit /\ [][VersionsNext]_storeVars

-----------------------------------------------------------------------------
(* Properties. *)

(* A version loses its flag only to a newer one whose points are in place, so
   the concept never drops out of the search in between: upsert comes before
   the deactivation. *)
NeverHidden ==
    [][\A d \in Document : rows[d] = "latest" /\ rows'[d] = "old"
        => \E e \in Document : version[e] > version[d] /\ points[e].there]_storeVars

Quiet == \A d \in Document : pc[d] = "idle"

(* When the versions were indexed in their order, and no flag was lost, only
   the newest version that is indexed is found, in the rows and in the points. *)
LatestIsNewest ==
    Quiet /\ ~disorder /\ ~lost =>
        \A d, e \in Created : version[d] < version[e] /\ points[e].there =>
            rows[d] # "latest" /\ ~points[d].latest

(* "search only returns latest version's chunks" (015_versioning.sql): no older
   version is found when nothing is being indexed and no flag was lost. *)
SearchLatest ==
    Quiet /\ ~lost =>
        \A d, e \in Created : version[d] < version[e] /\ points[e].there => rows[d] # "latest"

(* The points have the flag of the row, for every document that was never
   deleted or that a tick looks at. *)
Reached == (Document \ reason) \cup ToSet(LastDeleted) \cup ToSet(FirstRestored)
FlagsMatch == \A d \in Reached : points[d].there => points[d].deleted = (d \in Deleted)

=============================================================================
