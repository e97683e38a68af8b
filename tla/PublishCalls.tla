---------------------------- MODULE PublishCalls ----------------------------
(***************************************************************************)
(* A document that an agent publishes: the call of submit_document or       *)
(* create_new_version with a file that was uploaded before, around the      *)
(* request to publish-document that PortalQueue models.                     *)
(*                                                                          *)
(* The gateway (index.ts) asks the Portal for the price, runs the tool,     *)
(* deducts the price and, when the answer is one of tier 2 or 3, has the    *)
(* Portal refund it; the tool (publish-tools.ts) reads the pending upload,  *)
(* posts the document and burns the upload when the document was created.   *)
(* Uploads are filled by PUT requests (upload-routes.ts) and reaped by a    *)
(* daily job (cleanup-pending-uploads.ts).                                  *)
(*                                                                          *)
(* The ledger is the Portal's: it is modelled by what its answers mean to   *)
(* the gateway, and applies a refund once per request_ref.                  *)
(***************************************************************************)
EXTENDS PortalQueue, Integers

CONSTANTS
    Upload,         \* pending uploads (file_id)
    Put,            \* PUT requests
    PutOf,          \* the upload of a PUT request
    RefOf,          \* the content_ref of a request that a tool makes
    Cost, Penalty,  \* effective cost of the call, PUBLISH_PENALTY
    Vias,           \* bound: who makes which request, see Via
    CallFaults,     \* what may fail besides, a subset of CallFaultKinds
    MaxFaults       \* bound: failures next to calls of tools

Via == {"portal", "tool"}

CallFaultKinds == {"overlap", "consent", "price", "deduct", "refund", "timeout", "burn", "stream", "expire"}

ASSUME CallAssumption ==
    /\ PutOf \in [Put -> Upload]
    /\ RefOf \in [Request -> Upload]
    /\ Vias \subseteq [Request -> Via]
    /\ \A v \in Vias : \/ "tool" \notin Range(v)
                       \/ Cardinality({r \in Request : v[r] = "portal"}) <= MaxConcurrent
    /\ Cost \in Nat /\ Penalty \in 1..Cost
    /\ CallFaults \subseteq CallFaultKinds
    /\ MaxFaults \in Nat

VARIABLES
    via,            \* who makes the requests of this behaviour
    \* the calls: control, whether the price is known, what publish-document
    \* answered, attempts of the refund
    step, price, heard, tries,
    paid,           \* the Portal's ledger: what a call has cost so far
    applied,        \* ... and the calls whose refund it has applied
    \* the uploads: their row, the files on disk that are whole, the PUTs
    slot, disk, put,
    faults          \* failures so far

calls    == <<step, price, heard, tries>>
ledger   == <<paid, applied>>
uploads  == <<slot, disk, put>>
callVars == <<via, calls, ledger, uploads, faults>>
allVars  == <<vars, callVars>>

Step  == {"idle", "resolve", "stage", "wait", "consume", "unlink", "bill", "refund",
          "over", "alert", "cut"}
Price == {"none", "known", "unknown"}
Heard == {"none", "created", "full", "internal", "fixable", "consent", "spam", "lost"}
Slot  == {"absent", "minted", "filled", "consumed", "deleted"}

CallsTypeOK ==
    /\ TypeOK
    /\ via \in Vias
    /\ step \in [Request -> Step]
    /\ price \in [Request -> Price]
    /\ heard \in [Request -> Heard]
    /\ tries \in [Request -> 0..3]
    /\ paid \in [Request -> Int]
    /\ applied \in SUBSET Request
    /\ slot \in [Upload -> Slot]
    /\ disk \in SUBSET Upload
    /\ put \in [Put -> {"idle", "writing", "written", "over"}]
    /\ faults \in 0..MaxFaults

Calls == {r \in Request : via[r] = "tool"}

(* A failure, of the kinds that the instance has. *)
Fails(kind) == kind \in CallFaults /\ faults < MaxFaults /\ faults' = faults + 1

Works == UNCHANGED faults

To(c, label) == step' = [step EXCEPT ![c] = label]

-----------------------------------------------------------------------------
(* Uploads. *)

(* create_upload_url. *)
Mint(f) ==
    /\ up /\ slot[f] = "absent"
    /\ slot' = [slot EXCEPT ![f] = "minted"]
    /\ Works
    /\ UNCHANGED <<vars, via, calls, ledger, disk, put>>

(* The checks of a PUT; the file is opened, which cuts off what was there. *)
OpenFile(p) ==
    LET f == PutOf[p]
    IN  /\ up /\ put[p] = "idle"
        /\ "overlap" \in CallFaults \/ \A q \in Put : PutOf[q] = f => put[q] \in {"idle", "over"}
        /\ slot[f] \in {"minted", "filled", "consumed"}
        /\ IF slot[f] = "minted"
           THEN put' = [put EXCEPT ![p] = "writing"] /\ disk' = disk \ {f}
           ELSE put' = [put EXCEPT ![p] = "over"] /\ UNCHANGED disk
        /\ Works
        /\ UNCHANGED <<vars, via, calls, ledger, slot>>

(* The body is streamed to the file, or the file is removed: a wrong magic
   number, too many bytes, a stream that breaks. *)
Stream(p) ==
    /\ put[p] = "writing"
    /\ \/ /\ put' = [put EXCEPT ![p] = "written"]
          /\ disk' = disk \cup {PutOf[p]}
          /\ Works
       \/ /\ Fails("stream")
          /\ put' = [put EXCEPT ![p] = "over"]
          /\ disk' = disk \ {PutOf[p]}
    /\ UNCHANGED <<vars, via, calls, ledger, slot>>

(* UPDATE ... WHERE filled_at IS NULL; who comes too late removes the file. *)
Fill(p) ==
    LET f == PutOf[p]
    IN  /\ put[p] = "written"
        /\ IF slot[f] = "minted"
           THEN slot' = [slot EXCEPT ![f] = "filled"] /\ UNCHANGED disk
           ELSE disk' = disk \ {f} /\ UNCHANGED slot
        /\ put' = [put EXCEPT ![p] = "over"]
        /\ Works
        /\ UNCHANGED <<vars, via, calls, ledger>>

(* The daily job: rows that were never consumed, a day after they expired ... *)
Reap(f) ==
    /\ Fails("expire")
    /\ slot[f] \in {"minted", "filled"}
    /\ slot' = [slot EXCEPT ![f] = "deleted"]
    /\ UNCHANGED <<vars, via, calls, ledger, disk, put>>

(* ... and then their files. *)
ReapFile(f) ==
    /\ slot[f] = "deleted" /\ f \in disk
    /\ disk' = disk \ {f}
    /\ Works
    /\ UNCHANGED <<vars, via, calls, ledger, slot, put>>

-----------------------------------------------------------------------------
(* The call, up to the request. *)

(* toolCheck: who cannot pay is refused; without an answer the price stays
   unknown. *)
CheckPrice(c) ==
    /\ up /\ step[c] = "idle"
    /\ \/ price' = [price EXCEPT ![c] = "known"] /\ To(c, "resolve") /\ Works
       \/ To(c, "over") /\ Works /\ UNCHANGED price
       \/ price' = [price EXCEPT ![c] = "unknown"] /\ To(c, "resolve") /\ Fails("price")
    /\ UNCHANGED <<vars, via, heard, tries, ledger, uploads>>

(* resolveContentRef. *)
Resolve(c) ==
    /\ step[c] = "resolve"
    /\ To(c, IF slot[RefOf[c]] = "filled" THEN "stage" ELSE "over")
    /\ Works
    /\ UNCHANGED <<vars, via, price, heard, tries, ledger, uploads>>

(* stageContentRef: the file is read and looked into, then the request is
   sent.  A bad archive and a dry run end the call here, and cost nothing. *)
Stage(c) ==
    /\ step[c] = "stage"
    /\ \/ RefOf[c] \in disk /\ To(c, "wait")
       \/ To(c, "over")
    /\ Works
    /\ UNCHANGED <<vars, via, price, heard, tries, ledger, uploads>>

-----------------------------------------------------------------------------
(* The request: PortalQueue, with the file of the upload. *)

Sent(r) == via[r] = "portal" \/ (via[r] = "tool" /\ step[r] = "wait")

Unavailable(r) == via[r] = "tool" /\ RefOf[r] \notin disk

(* The answer to a request that is refused says why; deterministic checks and
   a file that is gone are to be fixed by the agent, a check of the consent
   that cannot be made is answered 503, spam 422. *)
Ask(r) ==
    /\ Sent(r)
    /\ PreCheck(r)
    /\ Unavailable(r) => pc'[r] = "done"
    /\ IF reply'[r] # "rejected" \/ via[r] = "portal" THEN UNCHANGED heard /\ Works
       ELSE \E why \in {"fixable", "consent", "spam"} :
                /\ IF why = "consent" THEN Fails("consent") ELSE Works
                /\ heard' = [heard EXCEPT ![r] = why]
    /\ UNCHANGED <<via, step, price, tries, ledger, uploads>>

(* readFile of a file that was burnt or reaped meanwhile. *)
SourceGone(r) ==
    /\ pc[r] = "checked" /\ Unavailable(r)
    /\ Goto(r, "error")
    /\ UNCHANGED <<reply, db, storage, memory>>

(* The failures of the request count among those of the behaviour. *)
Fault(A) == A /\ faults < MaxFaults /\ faults' = faults + 1

(* A tool makes up a key for each call: it meets no other with its key.  An
   archive that is refused late is like one that is refused early. *)
Handle(r) ==
    /\ \/ Works /\ Materialize(r) /\ ~Unavailable(r) /\ reply'[r] = "none"
       \/ Works /\ SourceGone(r)
       \/ Works /\ (Save(r) \/ SetKey(r) \/ Answer(r) \/ Fail(r))
       \/ Fault(Throws(r))
    /\ UNCHANGED <<via, calls, ledger, uploads>>

Start ==
    /\ Works
    /\ Select \/ Load \/ StartQueue
    /\ UNCHANGED <<via, calls, ledger, uploads>>

Work ==
    /\ Works
    /\ \E i \in DOMAIN working : WorkStep(i)
    /\ UNCHANGED <<via, calls, ledger, uploads>>

-----------------------------------------------------------------------------
(* The call, from the answer on. *)

(* The answer arrives; after 60 seconds the call does without. *)
Hear(c) ==
    /\ step[c] = "wait"
    /\ \/ /\ reply[c] = "accepted"
          /\ heard' = [heard EXCEPT ![c] = "created"]
          /\ To(c, "consume")
          /\ Works
       \/ /\ reply[c] \in {"full", "internal"}
          /\ heard' = [heard EXCEPT ![c] = reply[c]]
          /\ To(c, "bill")
          /\ Works
       \/ /\ reply[c] = "rejected"
          /\ To(c, "bill")
          /\ Works
          /\ UNCHANGED heard
       \/ /\ Fails("timeout")
          /\ heard' = [heard EXCEPT ![c] = "lost"]
          /\ To(c, "over")
    /\ UNCHANGED <<vars, via, price, tries, ledger, uploads>>

\* Mutated form: the file first.
UnlinkFirst(c) ==
    /\ step[c] = "consume"
    /\ disk' = disk \ {RefOf[c]}
    /\ To(c, "unlink")
    /\ Works
    /\ UNCHANGED <<vars, via, price, heard, tries, ledger, slot, put>>

(* consumeContentRef: the row, a failure is swallowed ... *)
Consume(c) ==
    /\ step[c] = "consume"
    /\ \/ slot' = [slot EXCEPT ![RefOf[c]] = IF @ = "filled" THEN "consumed" ELSE @] /\ Works
       \/ UNCHANGED slot /\ Fails("burn")
    /\ To(c, "unlink")
    /\ UNCHANGED <<vars, via, price, heard, tries, ledger, disk, put>>

(* ... and the file. *)
Unlink(c) ==
    /\ step[c] = "unlink"
    /\ disk' = disk \ {RefOf[c]}
    /\ To(c, "bill")
    /\ Works
    /\ UNCHANGED <<vars, via, price, heard, tries, ledger, slot, put>>

(* isChargeablePublishStatus: 202, 422 and every 5xx. *)
Chargeable(answer) == answer \in {"created", "full", "internal", "consent", "spam"}

(* The refund of a tier 2 or 3 envelope, 0 when there is none. *)
Refunded(answer) ==
    CASE answer = "spam" -> Cost - Penalty
      [] answer \in {"full", "internal"} -> Cost
      [] OTHER -> 0

(* toolDeduct, or deduct-credit (one credit) when the price is not known; an
   envelope with a refund goes to the Portal, whether the deduction worked or
   not, but not after deduct-credit. *)
Bill(c) ==
    /\ step[c] = "bill"
    /\ LET amount == IF price[c] = "known" THEN Cost ELSE 1
           due == IF Chargeable(heard[c]) THEN amount ELSE 0
       IN  \/ paid' = [paid EXCEPT ![c] = @ + due] /\ Works
           \/ UNCHANGED paid /\ Fails("deduct")
    /\ To(c, IF price[c] = "known" /\ Refunded(heard[c]) > 0 THEN "refund" ELSE "over")
    /\ UNCHANGED <<vars, via, price, heard, tries, applied, uploads>>

\* Mutated form: each attempt has a request_ref of its own.
RefundAnew(c) ==
    /\ step[c] = "refund"
    /\ paid' = [paid EXCEPT ![c] = @ - Refunded(heard[c])]
    /\ \/ To(c, "over") /\ Works /\ UNCHANGED tries
       \/ Fails("refund") /\ tries' = [tries EXCEPT ![c] = @ + 1]
          /\ To(c, IF tries[c] = 2 THEN "alert" ELSE "refund")
    /\ UNCHANGED <<vars, via, price, heard, applied, uploads>>

(* applyPublishRefund: three attempts with one request_ref; the Portal applies
   the first that arrives, its answer may be lost; then an operator is called. *)
Refund(c) ==
    /\ step[c] = "refund"
    /\ \E arrives \in BOOLEAN :
          /\ paid' = IF arrives /\ c \notin applied
                     THEN [paid EXCEPT ![c] = @ - Refunded(heard[c])] ELSE paid
          /\ applied' = IF arrives THEN applied \cup {c} ELSE applied
          /\ \/ arrives /\ To(c, "over") /\ Works /\ UNCHANGED tries
             \/ /\ Fails("refund")
                /\ tries' = [tries EXCEPT ![c] = @ + 1]
                /\ To(c, IF tries[c] = 2 THEN "alert" ELSE "refund")
    /\ UNCHANGED <<vars, via, price, heard, uploads>>

-----------------------------------------------------------------------------
(* The server dies, with its calls and the bodies it was writing. *)
ServerDies ==
    /\ Fault(Crash)
    /\ step' = [c \in Request |-> IF step[c] \in {"idle", "over", "alert"} THEN step[c] ELSE "cut"]
    /\ put' = [p \in Put |-> IF put[p] = "idle" THEN "idle" ELSE "over"]
    /\ UNCHANGED <<via, price, heard, tries, ledger, slot, disk>>

(* In execution are documents of the Portal whose handlers died before they
   wrote the key, and which the next start has found. *)
InitBusy ==
    LET busy == {r \in Request : via[r] = "portal"}
        order == SetToSeq(busy)
    IN  /\ pc = [r \in Request |-> IF r \in busy THEN "done" ELSE "new"]
        /\ reply = [r \in Request |-> "none"]
        /\ row = [r \in Request |-> IF r \in busy THEN "processing" ELSE "none"]
        /\ keyed = {}
        /\ path = [r \in Request |-> r]
        /\ born = order
        /\ files = busy /\ stuck = {}
        /\ queue = <<>> /\ found = <<>>
        /\ working = [i \in DOMAIN order |-> [doc |-> order[i], begun |-> TRUE]]
        /\ boot = "ready"

CallsInit ==
    /\ via \in Vias
    /\ IF Calls = {} THEN Init ELSE InitBusy
    /\ step = [r \in Request |-> "idle"]
    /\ price = [r \in Request |-> "none"]
    /\ heard = [r \in Request |-> "none"]
    /\ tries = [r \in Request |-> 0]
    /\ paid = [r \in Request |-> 0]
    /\ applied = {}
    /\ slot = [f \in Upload |-> "absent"]
    /\ disk = {}
    /\ put = [p \in Put |-> "idle"]
    /\ faults = 0

CallStep(c) ==
    \/ CheckPrice(c) \/ Resolve(c) \/ Stage(c)
    \/ Hear(c) \/ Consume(c) \/ Unlink(c) \/ Bill(c) \/ Refund(c)

(* The Portal alone: PortalQueue as it is, every failure as often as it likes. *)
PortalHandle(r) == HandlerStep(r) /\ UNCHANGED callVars
PortalStart     == BootStep /\ UNCHANGED callVars

PortalNext ==
    /\ Calls = {}
    /\ \/ \E r \in Request : PortalHandle(r) \/ (Sent(r) /\ PreCheck(r) /\ UNCHANGED callVars)
       \/ PortalStart \/ Work
       \/ (Crash \/ Restart) /\ UNCHANGED callVars

(* Tools and the Portal, with a bounded number of failures. *)
ToolNext ==
    /\ Calls # {}
    /\ \/ \E c \in Calls : CallStep(c)
       \/ \E r \in Request : Ask(r) \/ Handle(r)
       \/ Start \/ Work
       \/ \E f \in Upload : Mint(f) \/ Reap(f) \/ ReapFile(f)
       \/ \E p \in Put : OpenFile(p) \/ Stream(p) \/ Fill(p)
       \/ ServerDies
       \/ Restart /\ UNCHANGED callVars

CallsNext == PortalNext \/ ToolNext

(* The fairness of PortalQueue. *)
CallsSpec ==
    /\ CallsInit /\ [][CallsNext]_allVars
    /\ \A r \in Request : WF_allVars(IF Calls = {} THEN PortalHandle(r) ELSE Handle(r))
    /\ WF_allVars(IF Calls = {} THEN PortalStart ELSE Start)
    /\ WF_allVars(Work)

-----------------------------------------------------------------------------
(* Properties. *)

(* A call that has come to its end has cost what its answer is worth: the whole
   price if the document is there, row and files, in whatever order the
   requests, the failures and the lost answers of the refund came; the penalty
   after spam; nothing otherwise, and never less (publish-tools.ts:278-290). *)
FairlyCharged ==
    \A c \in Calls : step[c] = "over" /\ price[c] = "known" =>
        /\ paid[c] = CASE heard[c] = "created" -> Cost [] heard[c] = "spam" -> Penalty [] OTHER -> 0
        /\ paid[c] = Cost => c \in Existing /\ path[c] \in files

(* An upload that was answered 200 stays usable until it is burnt or reaped,
   whatever becomes of the calls that read it, and it is burnt only for a
   document that is there: "Burn the upload only after the doc was really
   created" (publish-tools.ts:684). *)
UploadKept ==
    \A f \in Upload :
        /\ slot[f] = "filled" => f \in disk
        /\ slot[f] = "consumed" => \E c \in Calls : RefOf[c] = f /\ c \in Existing /\ path[c] \in files
=============================================================================
