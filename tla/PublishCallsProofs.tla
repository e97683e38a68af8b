------------------------- MODULE PublishCallsProofs -------------------------
(***************************************************************************)
(* Publishing, proved for any number of requests, calls, uploads, PUTs and  *)
(* failures: one submission is kept once, answers agree with the rows and   *)
(* the directories, calls cost what their answer is worth, and uploads stay *)
(* usable until they are burnt for a document that is there.                *)
(*                                                                          *)
(* The theorems name what they ask of the instance:                         *)
(*   - no two requests carry one portal document and version (otherwise the *)
(*     second takes the row of the first: README, Known divergences);       *)
(*   - of the failures next to the calls, those of Harmless;                *)
(*   - spam costs less than a document.                                     *)
(***************************************************************************)
EXTENDS PublishCalls, TLAPS

Distinct == \A r, q \in Request : PortalId[r] = PortalId[q] => r = q

Tolerated == {"price", "refund", "timeout", "stream", "expire"}

-----------------------------------------------------------------------------
(* The Portal's requests. *)

(* The types of what the invariant speaks of. *)
Types ==
    /\ pc \in [Request -> PC]
    /\ reply \in [Request -> Answers]
    /\ row \in [Request -> Status]
    /\ keyed \in SUBSET Request
    /\ path \in [Request -> Request]

(* What a request has at each of its steps: its directory from the archive on,
   its row from the save on, and an answer when it is done. *)
Stages ==
    \A r \in Request :
        /\ reply[r] # "none" => pc[r] = "done"
        /\ pc[r] \in {"new", "checked"} => r \notin files
        /\ pc[r] \in {"stored", "saved", "keyed", "lost", "dropped"} => r \in files
        /\ pc[r] \in {"saved", "keyed", "lost"} => r \in Existing
        /\ path[r] = r

(* The key: one row has it, and whoever got past it has it. *)
Keys ==
    /\ \A q \in keyed : q \in Existing /\ pc[q] \in {"keyed", "done"}
    /\ \A r, q \in keyed : SameKey(r, q) => r = q
    /\ \A r \in Request :
          (pc[r] = "keyed" \/ reply[r] \in Kept) /\ KeyOf[r] # NoKey => r \in keyed

RequestInv == Types /\ Stages /\ Keys /\ AnswerMeetsDisk

(* One handler or queue step, with the file that is gone. *)
RequestStep ==
    \/ \E r \in Request : PreCheck(r) \/ HandlerStep(r) \/ SourceGone(r)
    \/ BootStep
    \/ \E i \in DOMAIN working : WorkStep(i)
    \/ Crash \/ Restart
    \/ UNCHANGED vars

(* The empty system, and the one with documents in execution, satisfy it. *)
LEMMA RequestInit == (Init \/ InitBusy) => RequestInv
BY DEF Init, InitBusy, RequestInv, Types, Stages, Keys, AnswerMeetsDisk, PC, Answers, Status,
       Existing, Kept

(* With distinct ids a request saves a row of its own. *)
LEMMA OwnRow ==
    ASSUME Distinct, RequestInv, NEW r \in Request, Save(r)
    PROVE  /\ pc[r] = "stored" /\ Goto(r, "saved")
           /\ row' = [row EXCEPT ![r] = "downloaded"]
           /\ path' = [path EXCEPT ![r] = r]
           /\ UNCHANGED <<reply, keyed, storage>>
<1>1. Twins(r) \subseteq {r}
  BY DEF Twins, Distinct, Existing
<1>2. CASE Twins(r) = {}
  BY <1>2 DEF Save
<1>3. CASE Twins(r) = {r}
  <2>1. (CHOOSE q \in Twins(r) : TRUE) = r
    BY <1>3
  <2>2. QED
    BY <1>3, <2>1 DEF Save
<1>4. QED
  BY <1>1, <1>2, <1>3

(* A row that is only set to a new status stays. *)
LEMMA StatusSet ==
    ASSUME RequestInv, NEW d, NEW s \in Status \ {"none"},
           row' = IF d \in Existing THEN [row EXCEPT ![d] = s] ELSE row,
           UNCHANGED <<pc, reply, keyed, path, storage>>
    PROVE  RequestInv'
<1> USE DEF RequestInv, Types, Status, storage
<1>1. row' \in [Request -> Status] /\ Existing' = Existing
  BY DEF Existing
<1>2. Types'
  BY <1>1
<1>3. Stages' /\ Keys' /\ AnswerMeetsDisk'
  BY <1>1 DEF Stages, Keys, AnswerMeetsDisk, SameKey
<1>4. QED
  BY <1>2, <1>3

(* Every step keeps the invariant. *)
LEMMA RequestKeeps ==
    ASSUME Distinct, RequestInv, RequestStep
    PROVE  RequestInv'
<1> USE DEF RequestInv
<1> USE DEF PC, Answers, Status, Goto, Reply, Kept, RemoveDir, handlers, db, storage, memory, vars
<1>1. CASE UNCHANGED vars
  BY <1>1 DEF Types, Stages, Keys, AnswerMeetsDisk, Existing, SameKey
<1>2. ASSUME NEW r \in Request, PreCheck(r) \/ SourceGone(r) PROVE RequestInv'
  <2>1. Types' /\ Existing' = Existing
    BY <1>2 DEF PreCheck, SourceGone, Types, Existing
  <2>2. Stages' /\ Keys' /\ AnswerMeetsDisk'
    BY <1>2, <2>1 DEF PreCheck, SourceGone, Types, Stages, Keys, AnswerMeetsDisk, SameKey
  <2>3. QED
    BY <2>1, <2>2
<1>3. ASSUME NEW r \in Request, Materialize(r) PROVE RequestInv'
  <2>1. Types' /\ Existing' = Existing
    BY <1>3 DEF Materialize, Types, Existing
  <2>2. Stages' /\ Keys' /\ AnswerMeetsDisk'
    BY <1>3, <2>1 DEF Materialize, Types, Stages, Keys, AnswerMeetsDisk, SameKey
  <2>3. QED
    BY <2>1, <2>2
<1>4. ASSUME NEW r \in Request, Save(r) PROVE RequestInv'
  <2>1. /\ pc[r] = "stored" /\ Goto(r, "saved")
        /\ row' = [row EXCEPT ![r] = "downloaded"]
        /\ path' = [path EXCEPT ![r] = r]
        /\ UNCHANGED <<reply, keyed, storage>>
    BY <1>4, OwnRow
  <2>2. path' = path
    BY <2>1 DEF Types, Stages
  <2>3. Types' /\ Existing' = Existing \cup {r}
    BY <2>1, <2>2 DEF Types, Existing
  <2>4. Stages' /\ Keys' /\ AnswerMeetsDisk'
    BY <2>1, <2>2, <2>3 DEF Types, Stages, Keys, AnswerMeetsDisk, SameKey
  <2>5. QED
    BY <2>3, <2>4
<1>5. ASSUME NEW r \in Request, SetKey(r) PROVE RequestInv'
  <2>1. Types' /\ Existing' = Existing
    BY <1>5 DEF SetKey, Types, Existing
  <2>2. Stages' /\ Keys' /\ AnswerMeetsDisk'
    BY <1>5, <2>1 DEF SetKey, Types, Stages, Keys, AnswerMeetsDisk, SameKey
  <2>3. QED
    BY <2>1, <2>2
<1>6. ASSUME NEW r \in Request, DropRow(r) PROVE RequestInv'
  <2>1. Types' /\ Existing \ {r} \subseteq Existing'
    BY <1>6 DEF DropRow, Types, Existing
  <2>2. Stages' /\ Keys' /\ AnswerMeetsDisk'
    BY <1>6, <2>1 DEF DropRow, Types, Stages, Keys, AnswerMeetsDisk, SameKey
  <2>3. QED
    BY <2>1, <2>2
<1>7. ASSUME NEW r \in Request, Replay(r) \/ Answer(r) PROVE RequestInv'
  <2>1. Types' /\ Existing' = Existing
    BY <1>7 DEF Replay, Answer, Types, Existing
  <2>2. Stages' /\ Keys' /\ AnswerMeetsDisk'
    BY <1>7, <2>1 DEF Replay, Answer, Types, Stages, Keys, AnswerMeetsDisk, SameKey
  <2>3. QED
    BY <2>1, <2>2
<1>8. ASSUME NEW r \in Request, Throws(r) \/ Fail(r) PROVE RequestInv'
  <2>1. Types' /\ Existing' = Existing
    BY <1>8 DEF Throws, Fail, Types, Existing
  <2>2. Stages' /\ Keys' /\ AnswerMeetsDisk'
    BY <1>8, <2>1 DEF Throws, Fail, Types, Stages, Keys, AnswerMeetsDisk, SameKey
  <2>3. QED
    BY <2>1, <2>2
<1>9. CASE BootStep \/ Restart
  <2>1. UNCHANGED <<pc, reply, row, keyed, path, storage>>
    BY <1>9 DEF BootStep, Select, Load, StartQueue, BootFails, Restart
  <2>2. QED
    BY <2>1 DEF Types, Stages, Keys, AnswerMeetsDisk, Existing, SameKey
<1>10. ASSUME NEW i \in DOMAIN working, WorkStep(i) PROVE RequestInv'
  BY <1>10, StatusSet DEF WorkStep, Begin, Finish
<1>11. CASE Crash
  <2>1. Types' /\ Existing' = Existing
    BY <1>11 DEF Crash, Types, Existing
  <2>2. Stages' /\ Keys' /\ AnswerMeetsDisk'
    BY <1>11, <2>1 DEF Crash, Types, Stages, Keys, AnswerMeetsDisk, SameKey
  <2>3. QED
    BY <2>1, <2>2
<1>12. QED
  BY <1>1, <1>2, <1>3, <1>4, <1>5, <1>6, <1>7, <1>8, <1>9, <1>10, <1>11
  DEF RequestStep, HandlerStep

(* An answer that was given stays. *)
LEMMA AnswersStay ==
    ASSUME RequestInv, RequestStep, NEW r \in Request, reply[r] # "none"
    PROVE  reply'[r] = reply[r]
<1>1. pc[r] = "done" /\ r \in DOMAIN reply
  BY DEF RequestInv, Stages, Types
<1>2. QED
  BY <1>1 DEF RequestStep, PreCheck, HandlerStep, SourceGone, Materialize, Save, SetKey, DropRow,
     Replay, Answer, Throws, Fail, Goto, Reply, BootStep, Select, Load, StartQueue, BootFails,
     WorkStep, Begin, Finish, Crash, Restart, handlers, vars, RequestInv, Types

-----------------------------------------------------------------------------
(* The calls of the agents. *)

CallTypes ==
    /\ via \in [Request -> Via]
    /\ step \in [Request -> Step]
    /\ price \in [Request -> Price]
    /\ heard \in [Request -> Heard]
    /\ paid \in [Request -> Int]
    /\ applied \in SUBSET Request
    /\ slot \in [Upload -> Slot]
    /\ disk \in SUBSET Upload
    /\ put \in [Put -> {"idle", "writing", "written", "over"}]

Before == {"idle", "resolve", "stage"}

(* What a call knows of the answer at each of its steps. *)
Answered ==
    \A c \in Calls :
        /\ step[c] \in Before => heard[c] = "none" /\ pc[c] = "new"
        /\ step[c] = "wait" => heard[c] = "none" \/ (reply[c] = "rejected" /\ heard[c] \in {"fixable", "spam"})
        /\ step[c] = "wait" /\ reply[c] = "rejected" => heard[c] # "none"
        /\ step[c] \in {"consume", "unlink"} => heard[c] = "created"
        /\ step[c] \in {"bill", "refund"} => heard[c] \in {"created", "full", "internal", "fixable", "spam"}
        /\ heard[c] = "created" => reply[c] = "accepted"

(* What the answer is worth. *)
Worth(answer) == CASE answer = "created" -> Cost [] answer = "spam" -> Penalty [] OTHER -> 0

(* What the ledger of a call holds at each of its steps: nothing before the
   bill, the whole price until the refund is applied. *)
Billed ==
    \A c \in Calls :
        /\ step[c] \in Before \cup {"wait", "consume", "unlink", "bill"} => paid[c] = 0 /\ c \notin applied
        /\ step[c] = "refund" =>
              /\ heard[c] \in {"full", "internal", "spam"}
              /\ paid[c] = IF c \in applied THEN Worth(heard[c]) ELSE Cost
        /\ step[c] = "over" /\ price[c] = "known" => paid[c] = Worth(heard[c])

Open(p) == put[p] \in {"writing", "written"}

(* An upload: one PUT at a time writes to a row that is not filled yet, what is
   filled is on the disk, and a call burns what it has read. *)
Uploaded ==
    /\ \A p, q \in Put :
          PutOf[p] = PutOf[q] /\ Open(p) /\ Open(q) => p = q
    /\ \A p \in Put :
          /\ Open(p) => slot[PutOf[p]] \in {"minted", "deleted"}
          /\ put[p] = "written" /\ slot[PutOf[p]] = "minted" => PutOf[p] \in disk
    /\ \A f \in Upload : slot[f] = "filled" => f \in disk
    /\ \A c \in Calls :
          /\ step[c] \in {"stage", "wait", "consume"} => slot[RefOf[c]] \in {"filled", "consumed", "deleted"}
          /\ step[c] = "unlink" => slot[RefOf[c]] \in {"consumed", "deleted"}

Burnt ==
    \A f \in Upload : slot[f] = "consumed" => \E c \in Calls : RefOf[c] = f /\ reply[c] = "accepted"

CallInv == CallTypes /\ Answered /\ Billed /\ Uploaded /\ Burnt

(* What the theorems ask of the instance. *)
Hypotheses ==
    /\ Distinct
    /\ CallFaults \subseteq Tolerated
    /\ Penalty < Cost

(* The first states satisfy the invariant. *)
LEMMA CallsStart == CallsInit => RequestInv /\ CallInv
<1> SUFFICES ASSUME CallsInit PROVE RequestInv /\ CallInv
  OBVIOUS
<1>1. RequestInv
  BY RequestInit DEF CallsInit
<1>2. CallTypes
  BY CallAssumption DEF CallsInit, CallTypes, Step, Price, Heard, Slot
<1>3. \A c \in Calls : c \in Request
  BY DEF Calls
<1>4. Answered
  <2>1. CASE Calls = {}
    BY <2>1 DEF Answered
  <2>2. CASE Calls # {}
    BY <1>3, <2>2 DEF CallsInit, InitBusy, Answered, Calls
  <2>3. QED
    BY <2>1, <2>2
<1>5. Billed
  BY <1>3 DEF CallsInit, Billed
<1>6. Uploaded /\ Burnt
  <2>1. /\ \A c \in Request : step[c] = "idle"
        /\ \A p \in Put : put[p] = "idle"
        /\ \A f \in Upload : slot[f] = "absent"
    BY DEF CallsInit
  <2>2. Uploaded
    BY <1>3, <2>1 DEF Open, Uploaded
  <2>3. Burnt
    BY <2>1 DEF Burnt
  <2>4. QED
    BY <2>2, <2>3
<1>7. QED
  BY <1>1, <1>2, <1>4, <1>5, <1>6 DEF CallInv

(* A request or queue step that leaves the calls alone. *)
LEMMA Elsewhere ==
    ASSUME RequestInv, CallInv, RequestStep,
           UNCHANGED <<via, calls, ledger, uploads>>,
           \A r \in Calls : step[r] = "wait" => reply'[r] # "rejected" \/ reply[r] = "rejected",
           \A r \in Calls : step[r] \in Before => pc'[r] = pc[r]
    PROVE  CallInv'
<1>1. Calls' = Calls /\ \A c \in Calls : c \in Request
  BY DEF Calls
<1>2. \A r \in Request : reply[r] = "accepted" => reply'[r] = "accepted"
  BY AnswersStay
<1>3. \A r \in Request : reply[r] = "rejected" => reply'[r] = "rejected"
  BY AnswersStay
<1>4. CallTypes'
  BY DEF CallInv, CallTypes, calls, ledger, uploads
<1>5. Answered'
  BY <1>1, <1>2, <1>3 DEF CallInv, Answered, calls, ledger, uploads
<1>6. Billed'
  BY <1>1 DEF CallInv, Billed, calls, ledger, uploads
<1>7. Uploaded' /\ Burnt'
  BY <1>1, <1>2 DEF CallInv, Open, Uploaded, Burnt, calls, ledger, uploads
<1>8. QED
  BY <1>4, <1>5, <1>6, <1>7 DEF CallInv

(* A step of a call leaves the requests alone. *)
LEMMA CallStepKeeps ==
    ASSUME Hypotheses, RequestInv, CallInv, NEW c \in Calls, CallStep(c)
    PROVE  CallInv'
<1> USE DEF Before, Step, Price, Heard, Slot, Works, Fails, To, Tolerated
<1>1. c \in Request /\ RefOf[c] \in Upload /\ \A d \in Calls : d \in Request
  BY CallAssumption DEF Calls
<1>2. UNCHANGED <<vars, via>> /\ Calls' = Calls /\ pc' = pc /\ reply' = reply
  BY DEF CallStep, CheckPrice, Resolve, Stage, Hear, Consume, Unlink, Bill, Refund, Calls,
         vars, handlers
<1>3. CallTypes /\ Answered /\ Billed /\ Uploaded /\ Burnt
  BY DEF CallInv
<1>4. CASE CheckPrice(c) \/ Resolve(c) \/ Stage(c)
  <2>1. CallTypes'
    <3>1. CASE CheckPrice(c)
      BY <1>1, <1>2, <1>3, <3>1 DEF CheckPrice, CallTypes, ledger, uploads
    <3>2. CASE Resolve(c)
      BY <1>1, <1>2, <1>3, <3>2 DEF Resolve, CallTypes, ledger, uploads
    <3>3. CASE Stage(c)
      BY <1>1, <1>2, <1>3, <3>3 DEF Stage, CallTypes, ledger, uploads
    <3>4. QED
      BY <1>4, <3>1, <3>2, <3>3
  <2>2. Answered' /\ Billed'
    <3>1. UNCHANGED <<heard, paid, applied>> /\ step[c] \in Before
      BY <1>4 DEF CheckPrice, Resolve, Stage, ledger
    <3>2. \E l \in {"resolve", "stage", "wait", "over"} :
             /\ step' = [step EXCEPT ![c] = l]
             /\ l = "wait" => step[c] = "stage"
      BY <1>4 DEF CheckPrice, Resolve, Stage
    <3>3. \A d \in Calls \ {c} : price'[d] = price[d]
      BY <1>1, <1>3, <1>4 DEF CheckPrice, Resolve, Stage, CallTypes
    <3>4. Answered'
      BY <1>1, <1>2, <1>3, <3>1, <3>2 DEF CallTypes, Answered, RequestInv, Stages
    <3>5. Billed'
      BY <1>1, <1>2, <1>3, <3>1, <3>2, <3>3 DEF CallTypes, Answered, Billed, Worth
    <3>6. QED
      BY <3>4, <3>5
  <2>3. UNCHANGED uploads
    BY <1>4 DEF CheckPrice, Resolve, Stage
  <2>4. Uploaded'
    BY <1>1, <1>2, <1>3, <1>4, <2>3
    DEF CheckPrice, Resolve, Stage, CallTypes, Open, Uploaded, uploads
  <2>5. Burnt'
    BY <1>2, <1>3, <2>3 DEF Burnt, uploads
  <2>6. QED
    BY <2>1, <2>2, <2>4, <2>5 DEF CallInv
<1>5. CASE Hear(c)
  <2>1. CallTypes'
    BY <1>1, <1>2, <1>3, <1>5 DEF Hear, CallTypes, ledger, uploads
  <2>2. Answered' /\ Billed'
    BY <1>1, <1>2, <1>3, <1>5 DEF Hear, CallTypes, Answered, Billed, Worth, ledger
  <2>3. Uploaded' /\ Burnt'
    BY <1>1, <1>2, <1>3, <1>5 DEF Hear, CallTypes, Open, Uploaded, Burnt, uploads
  <2>4. QED
    BY <2>1, <2>2, <2>3 DEF CallInv
<1>6. CASE Consume(c)
  <2>1. CallTypes'
    BY <1>1, <1>2, <1>3, <1>6 DEF Consume, CallTypes, ledger
  <2>2. Answered' /\ Billed'
    BY <1>1, <1>2, <1>3, <1>6 DEF Consume, CallTypes, Answered, Billed, Worth, ledger
  <2>3. slot' = [slot EXCEPT ![RefOf[c]] = IF @ = "filled" THEN "consumed" ELSE @]
    BY <1>6 DEF Consume, Hypotheses
  <2>4. Uploaded'
    BY <1>1, <1>2, <1>3, <1>6, <2>3 DEF Consume, CallTypes, Open, Uploaded
  <2>5. Burnt'
    BY <1>1, <1>2, <1>3, <1>6, <2>3 DEF Consume, CallTypes, Answered, Burnt
  <2>6. QED
    BY <2>1, <2>2, <2>4, <2>5 DEF CallInv
<1>7. CASE Unlink(c)
  <2>1. CallTypes'
    BY <1>1, <1>2, <1>3, <1>7 DEF Unlink, CallTypes, ledger
  <2>2. Answered' /\ Billed'
    BY <1>1, <1>2, <1>3, <1>7 DEF Unlink, CallTypes, Answered, Billed, Worth, ledger
  <2>3. Uploaded' /\ Burnt'
    BY <1>1, <1>2, <1>3, <1>7 DEF Unlink, CallTypes, Open, Uploaded, Burnt
  <2>4. QED
    BY <2>1, <2>2, <2>3 DEF CallInv
<1>8. CASE Bill(c)
  <2>1. CallTypes'
    BY <1>1, <1>2, <1>3, <1>8, CallAssumption DEF Bill, CallTypes, uploads
  <2>2. Answered'
    BY <1>1, <1>2, <1>3, <1>8 DEF Bill, CallTypes, Answered
  <2>3. Billed'
    BY <1>1, <1>2, <1>3, <1>8, CallAssumption
    DEF Bill, CallTypes, Answered, Billed, Worth, Chargeable, Refunded, Hypotheses
  <2>4. Uploaded' /\ Burnt'
    BY <1>1, <1>2, <1>3, <1>8 DEF Bill, CallTypes, Open, Uploaded, Burnt, uploads
  <2>5. QED
    BY <2>1, <2>2, <2>3, <2>4 DEF CallInv
<1>9. CASE Refund(c)
  <2>1. CallTypes'
    BY <1>1, <1>2, <1>3, <1>9, CallAssumption DEF Refund, CallTypes, Answered, Billed, Refunded, uploads
  <2>2. Answered'
    BY <1>1, <1>2, <1>3, <1>9, CallAssumption DEF Refund, CallTypes, Answered
  <2>3. Billed'
    BY <1>1, <1>2, <1>3, <1>9, CallAssumption
    DEF Refund, CallTypes, Answered, Billed, Worth, Refunded
  <2>4. Uploaded' /\ Burnt'
    BY <1>1, <1>2, <1>3, <1>9, CallAssumption DEF Refund, CallTypes, Open, Uploaded, Burnt, uploads
  <2>5. QED
    BY <2>1, <2>2, <2>3, <2>4 DEF CallInv
<1>10. QED
  BY <1>4, <1>5, <1>6, <1>7, <1>8, <1>9 DEF CallStep

(* A step of the uploads leaves the requests and the calls alone. *)
LEMMA UploadStepKeeps ==
    ASSUME Hypotheses, CallInv,
           \/ \E f \in Upload : Mint(f) \/ Reap(f) \/ ReapFile(f)
           \/ \E p \in Put : OpenFile(p) \/ Stream(p) \/ Fill(p)
    PROVE  CallInv'
<1> USE DEF Slot, Works, Fails, Tolerated
<1>0. \A p \in Put : PutOf[p] \in Upload
  BY CallAssumption
<1>1. UNCHANGED <<vars, via, calls, ledger>> /\ Calls' = Calls /\ pc' = pc /\ reply' = reply
  BY DEF Mint, Reap, ReapFile, OpenFile, Stream, Fill, Calls, vars, handlers
<1>2. CallTypes /\ Answered /\ Billed /\ Uploaded /\ Burnt
  BY DEF CallInv
<1>3. Answered' /\ Billed'
  BY <1>1, <1>2 DEF Answered, Billed, calls, ledger
<1>4. \A c \in Calls : c \in Request /\ RefOf[c] \in Upload
  BY CallAssumption DEF Calls
<1>5. ASSUME NEW f \in Upload, Mint(f) \/ Reap(f) PROVE CallTypes' /\ Uploaded' /\ Burnt'
  BY <1>0, <1>1, <1>2, <1>4, <1>5 DEF Mint, Reap, CallTypes, Open, Uploaded, Burnt, calls, ledger
<1>6. ASSUME NEW f \in Upload, ReapFile(f) PROVE CallTypes' /\ Uploaded' /\ Burnt'
  BY <1>0, <1>1, <1>2, <1>4, <1>6 DEF ReapFile, CallTypes, Open, Uploaded, Burnt, calls, ledger
<1>7. ASSUME NEW p \in Put, OpenFile(p) PROVE CallTypes' /\ Uploaded' /\ Burnt'
  <2>1. /\ put[p] = "idle"
        /\ \A q \in Put : PutOf[q] = PutOf[p] => put[q] \in {"idle", "over"}
    BY <1>7 DEF OpenFile, Hypotheses
  <2>2. QED
    BY <1>0, <1>1, <1>2, <1>4, <1>7, <2>1 DEF OpenFile, CallTypes, Open, Uploaded, Burnt, calls, ledger
<1>8. ASSUME NEW p \in Put, Stream(p) PROVE CallTypes' /\ Uploaded' /\ Burnt'
  <2>1. put[p] = "writing" /\ slot[PutOf[p]] \in {"minted", "deleted"} /\ UNCHANGED slot
    BY <1>2, <1>8 DEF Stream, Open, Uploaded
  <2>2. CallTypes' /\ Burnt'
    BY <1>0, <1>1, <1>2, <1>8 DEF Stream, CallTypes, Burnt, calls, ledger
  <2>3. ASSUME put' = [put EXCEPT ![p] = "written"], disk' = disk \cup {PutOf[p]}
        PROVE  Uploaded'
    BY <1>0, <1>1, <1>2, <1>4, <2>1, <2>3 DEF CallTypes, Open, Uploaded, calls
  <2>4. ASSUME put' = [put EXCEPT ![p] = "over"], disk' = disk \ {PutOf[p]}
        PROVE  Uploaded'
    BY <1>0, <1>1, <1>2, <1>4, <2>1, <2>4 DEF CallTypes, Open, Uploaded, calls
  <2>5. QED
    BY <1>8, <2>2, <2>3, <2>4 DEF Stream
<1>9. ASSUME NEW p \in Put, Fill(p) PROVE CallTypes' /\ Uploaded' /\ Burnt'
  BY <1>0, <1>1, <1>2, <1>4, <1>9 DEF Fill, CallTypes, Open, Uploaded, Burnt, calls, ledger
<1>10. QED
  BY <1>3, <1>5, <1>6, <1>7, <1>8, <1>9 DEF CallInv

(* A request that is sent: only its own call can hear of it. *)
LEMMA AskKeeps ==
    ASSUME Hypotheses, RequestInv, CallInv, NEW r \in Request, Ask(r)
    PROVE  CallInv'
<1> USE DEF Works, Fails, Tolerated
<1>1. RequestStep
  BY DEF Ask, RequestStep
<1>2. /\ pc[r] = "new"
      /\ \A q \in Request \ {r} : pc'[q] = pc[q] /\ reply'[q] = reply[q]
  BY DEF Ask, PreCheck, Goto, Reply, RequestInv, Types
<1>3. r \in Calls => step[r] = "wait"
  BY DEF Ask, Sent, Calls
<1>4. \A c \in Calls : c \in Request
  BY DEF Calls
<1>5. CASE reply'[r] # "rejected" \/ via[r] = "portal"
  <2>1. \A c \in Calls : step[c] = "wait" => reply'[c] # "rejected" \/ reply[c] = "rejected"
    BY <1>2, <1>4, <1>5 DEF Calls
  <2>2. \A c \in Calls : step[c] \in Before => pc'[c] = pc[c]
    BY <1>2, <1>3, <1>4 DEF Before
  <2>3. UNCHANGED <<via, calls, ledger, uploads>>
    BY <1>5 DEF Ask, calls
  <2>4. QED
    BY <1>1, <2>1, <2>2, <2>3, Elsewhere
<1>6. CASE reply'[r] = "rejected" /\ via[r] # "portal"
  <2>1. PICK why \in {"fixable", "spam"} : heard' = [heard EXCEPT ![r] = why]
    BY <1>6 DEF Ask, Hypotheses
  <2>2. r \in Calls /\ step[r] = "wait" /\ Calls' = Calls
    BY <1>6 DEF Ask, Sent, Calls
  <2>3. UNCHANGED <<via, step, price, ledger, uploads>>
    BY DEF Ask
  <2>4. CallTypes'
    BY <2>1, <2>3 DEF CallInv, CallTypes, Heard, ledger, uploads
  <2>5. Answered'
    BY <1>2, <1>4, <1>6, <2>1, <2>2, <2>3 DEF CallInv, CallTypes, Answered, Before
  <2>6. Billed'
    BY <1>4, <2>1, <2>2, <2>3 DEF CallInv, CallTypes, Billed, Worth, ledger
  <2>7. Uploaded'
    BY <2>2, <2>3 DEF CallInv, Uploaded, Open, uploads
  <2>8. \A c \in Request : reply[c] = "accepted" => reply'[c] = "accepted"
    BY <1>1, AnswersStay
  <2>9. Burnt'
    BY <1>4, <2>2, <2>3, <2>8 DEF CallInv, Burnt, uploads
  <2>10. QED
    BY <2>4, <2>5, <2>6, <2>7, <2>9 DEF CallInv
<1>7. QED
  BY <1>5, <1>6

(* A handler goes on; it has begun, and it does not refuse late. *)
LEMMA HandleKeeps ==
    ASSUME RequestInv, CallInv, NEW r \in Request, Handle(r)
    PROVE  CallInv'
<1>1. RequestStep
  BY DEF Handle, RequestStep, HandlerStep, Fault
<1>2. /\ pc[r] # "new"
      /\ \A q \in Request \ {r} : pc'[q] = pc[q] /\ reply'[q] = reply[q]
      /\ reply'[r] # "rejected"
  BY DEF Handle, Fault, Materialize, SourceGone, Save, SetKey, Answer, Fail, Throws, Goto, Reply,
     RequestInv, Types, Stages
<1>3. \A c \in Calls : c \in Request
  BY DEF Calls
<1>4. \A c \in Calls : step[c] = "wait" => reply'[c] # "rejected" \/ reply[c] = "rejected"
  BY <1>2, <1>3
<1>5. \A c \in Calls : step[c] \in Before => pc'[c] = pc[c]
  BY <1>2, <1>3 DEF CallInv, Answered
<1>6. QED
  BY <1>1, <1>4, <1>5, Elsewhere DEF Handle

(* The queue goes on, or the server starts. *)
LEMMA QueueKeeps ==
    ASSUME RequestInv, CallInv, Start \/ Work \/ (Restart /\ UNCHANGED callVars)
    PROVE  CallInv'
<1>1. RequestStep
  BY DEF Start, Work, RequestStep, BootStep
<1>2. UNCHANGED <<pc, reply>>
  BY DEF Start, Work, Select, Load, StartQueue, WorkStep, Begin, Finish, Restart, handlers
<1>3. UNCHANGED <<via, calls, ledger, uploads>>
  BY DEF Start, Work, callVars
<1>4. QED
  BY <1>1, <1>2, <1>3, Elsewhere

(* The server dies with its calls. *)
LEMMA DeathKeeps ==
    ASSUME RequestInv, CallInv, ServerDies
    PROVE  CallInv'
<1> USE DEF Fault
<1>1. /\ Calls' = Calls /\ \A c \in Calls : c \in Request
      /\ UNCHANGED <<via, price, heard, ledger, slot, disk, reply>>
      /\ \A c \in Request : step'[c] # step[c] => step'[c] = "cut"
      /\ \A c \in Request : step[c] \in Before \ {"idle"} => step'[c] = "cut"
      /\ \A c \in Request : step'[c] \in {"idle", "over", "alert", "cut"}
      /\ \A c \in Request : pc[c] = "new" => pc'[c] = "new"
      /\ \A p \in Put : ~Open(p)'
  BY DEF ServerDies, Crash, Calls, Open, Before
<1>2. CallTypes'
  BY <1>1 DEF ServerDies, CallInv, CallTypes, Step, ledger
<1>3. Answered'
  BY <1>1 DEF CallInv, Answered, Before
<1>4. Billed'
  BY <1>1 DEF CallInv, Billed, Before, ledger
<1>5. Uploaded'
  BY <1>1 DEF CallInv, Uploaded, Open
<1>6. Burnt'
  BY <1>1 DEF CallInv, Burnt
<1>7. QED
  BY <1>2, <1>3, <1>4, <1>5, <1>6 DEF CallInv

(* The Portal alone: there is no call. *)
LEMMA PortalKeeps ==
    ASSUME RequestInv, CallInv, PortalNext
    PROVE  RequestStep /\ CallInv'
<1>1. RequestStep
  BY DEF PortalNext, PortalHandle, PortalStart, Work, RequestStep
<1>2. Calls = {} /\ UNCHANGED <<via, calls, ledger, uploads>>
  BY DEF PortalNext, PortalHandle, PortalStart, Work, callVars
<1>3. QED
  BY <1>1, <1>2, Elsewhere

(* Every step of the composition keeps both invariants. *)
LEMMA CallsKeep ==
    ASSUME Hypotheses, RequestInv, CallInv, [CallsNext]_allVars
    PROVE  RequestInv' /\ CallInv'
<1> USE DEF Hypotheses
<1>1. CASE UNCHANGED allVars
  <2>1. RequestStep /\ UNCHANGED <<via, calls, ledger, uploads>> /\ UNCHANGED <<pc, reply>>
    BY <1>1 DEF allVars, vars, handlers, callVars, RequestStep
  <2>2. QED
    BY <2>1, RequestKeeps, Elsewhere
<1>2. CASE PortalNext
  BY <1>2, PortalKeeps, RequestKeeps
<1>3. ASSUME NEW c \in Calls, CallStep(c) PROVE RequestInv' /\ CallInv'
  <2>1. RequestStep
    BY <1>3 DEF RequestStep, CallStep, CheckPrice, Resolve, Stage, Hear, Consume, Unlink, Bill, Refund
  <2>2. QED
    BY <1>3, <2>1, RequestKeeps, CallStepKeeps
<1>4. ASSUME NEW r \in Request, Ask(r) PROVE RequestInv' /\ CallInv'
  <2>1. RequestStep
    BY <1>4 DEF Ask, RequestStep
  <2>2. QED
    BY <1>4, <2>1, RequestKeeps, AskKeeps
<1>5. ASSUME NEW r \in Request, Handle(r) PROVE RequestInv' /\ CallInv'
  <2>1. RequestStep
    BY <1>5 DEF Handle, RequestStep, HandlerStep, Fault
  <2>2. QED
    BY <1>5, <2>1, RequestKeeps, HandleKeeps
<1>6. CASE Start \/ Work \/ (Restart /\ UNCHANGED callVars)
  <2>1. RequestStep
    BY <1>6 DEF Start, Work, RequestStep, BootStep
  <2>2. QED
    BY <1>6, <2>1, RequestKeeps, QueueKeeps
<1>7. CASE \/ \E f \in Upload : Mint(f) \/ Reap(f) \/ ReapFile(f)
           \/ \E p \in Put : OpenFile(p) \/ Stream(p) \/ Fill(p)
  <2>1. RequestStep
    BY <1>7 DEF RequestStep, Mint, Reap, ReapFile, OpenFile, Stream, Fill
  <2>2. QED
    BY <1>7, <2>1, RequestKeeps, UploadStepKeeps
<1>8. CASE ServerDies
  <2>1. RequestStep
    BY <1>8 DEF ServerDies, Fault, RequestStep
  <2>2. QED
    BY <1>8, <2>1, RequestKeeps, DeathKeeps
<1>9. QED
  BY <1>1, <1>2, <1>3, <1>4, <1>5, <1>6, <1>7, <1>8 DEF CallsNext, ToolNext

(* Both invariants hold. *)
LEMMA Invariance == Hypotheses => (CallsSpec => [](RequestInv /\ CallInv))
<1> SUFFICES ASSUME Hypotheses PROVE CallsSpec => [](RequestInv /\ CallInv)
  OBVIOUS
<1>1. CallsInit => RequestInv /\ CallInv
  BY CallsStart
<1>2. RequestInv /\ CallInv /\ [CallsNext]_allVars => (RequestInv /\ CallInv)'
  BY CallsKeep
<1>3. QED
  BY <1>1, <1>2, PTL DEF CallsSpec

-----------------------------------------------------------------------------
(* The theorems. *)

(* One submission is kept once: of the requests with one idempotency key at
   most one is answered with its document, however they race, fail or are
   repeated after a crash. *)
THEOREM KeptOnce == Hypotheses => (CallsSpec => []AcceptedOnce)
<1>1. RequestInv => AcceptedOnce
  <2> SUFFICES ASSUME RequestInv, NEW r \in Request, NEW q \in Request,
                      SameKey(r, q), reply[r] \in Kept, reply[q] \in Kept
               PROVE  r = q
    BY DEF AcceptedOnce
  <2>1. r \in keyed /\ q \in keyed
    BY DEF RequestInv, Keys, SameKey
  <2>2. QED
    BY <2>1 DEF RequestInv, Keys
<1>2. QED
  BY <1>1, Invariance, PTL

(* What is answered with a document has its row and its directory, and what is
   refused leaves none but one that could not be removed. *)
THEOREM AnswersMeetTheDisk == Hypotheses => (CallsSpec => []AnswerMeetsDisk)
<1>1. RequestInv => AnswerMeetsDisk
  BY DEF RequestInv
<1>2. QED
  BY <1>1, Invariance, PTL

(* A call that has come to its end has cost what its answer is worth, and the
   whole price only when its document is there. *)
THEOREM FairCharge == Hypotheses => (CallsSpec => []FairlyCharged)
<1> SUFFICES ASSUME Hypotheses PROVE CallsSpec => []FairlyCharged
  OBVIOUS
<1>1. RequestInv /\ CallInv => FairlyCharged
  <2> SUFFICES ASSUME RequestInv, CallInv, NEW c \in Calls,
                      step[c] = "over", price[c] = "known"
               PROVE  /\ paid[c] = Worth(heard[c])
                      /\ paid[c] = Cost => c \in Existing /\ path[c] \in files
    BY DEF FairlyCharged, Worth
  <2>1. paid[c] = Worth(heard[c])
    BY DEF CallInv, Billed
  <2>2. ASSUME paid[c] = Cost PROVE reply[c] = "accepted" /\ c \in Request
    BY <2>1, <2>2, CallAssumption DEF Hypotheses, CallInv, Answered, Worth, Calls
  <2>3. QED
    BY <2>1, <2>2 DEF RequestInv, AnswerMeetsDisk, Kept
<1>2. QED
  BY <1>1, Invariance, PTL

(* An upload that was answered 200 stays usable until it is burnt or reaped,
   and it is burnt only for a document that is there. *)
THEOREM UploadsAreKept == Hypotheses => (CallsSpec => []UploadKept)
<1>1. RequestInv /\ CallInv => UploadKept
  <2>1. \A c \in Calls : c \in Request
    BY DEF Calls
  <2>2. QED
    BY <2>1 DEF CallInv, Uploaded, Burnt, RequestInv, AnswerMeetsDisk, Kept, UploadKept
<1>2. QED
  BY <1>1, Invariance, PTL
=============================================================================
