----------------------------- MODULE Methodist -----------------------------
(***************************************************************************)
(* The methodist door: one research run and the calls that reach it.       *)
(*                                                                         *)
(* A call walks the linear steps of a procedure (assets/content.ts) with   *)
(* the interpreter: only a gate or a contract violation ("rejected") ends  *)
(* it early; a step that fails technically leaves an error in its slot and *)
(* the later steps run.  The run node is read and written whole            *)
(* (update-run-state), the path of the run is the journal's typed events,  *)
(* the idempotency index is written by the door after the procedure.       *)
(*                                                                         *)
(* The stage of a payload is any JSON value, which the run keeps as it is. *)
(* A value is its type and what it counts for: "digits" is a text that     *)
(* spells a natural number, "text" any other text, list or object, "huge"  *)
(* a number too big for a double; an absent stage is not a null one.       *)
(***************************************************************************)
EXTENDS Integers, FiniteSets

CONSTANTS
    Calls,      \* requests the server can hold at a time
    HandIns,    \* checkpoint payloads: [hash, stage]
    Kinds,      \* what callers ask for, a subset of {"checkpoint", "ask", "need"}
    NoHandIn,   \* not a hand-in
    Faults,     \* what may fail, a subset of FaultKinds
    MaxCalls,   \* bound: calls explored once the run exists
    MaxFaults   \* bound: failures explored

FaultKinds == {"crash", "model", "graph", "run", "journal", "index"}
Verdict    == {"GO", "RETURN"}

\* What a run keeps, and what a payload can say besides.
JsonValue  == [type : {"number"}, num : Int] \cup [type : {"digits"}, num : Nat]
                \cup [type : {"boolean"}, num : {0, 1}] \cup [type : {"null", "text"}, num : {0}]
StageValue == JsonValue \cup [type : {"absent", "huge"}, num : {0}]
Null       == [type |-> "null", num |-> 0]
Number(n)  == [type |-> "number", num |-> n]

ASSUME ConstantsAssumption ==
    /\ IsFiniteSet(Calls)
    /\ \A h \in HandIns : h.stage \in StageValue
    /\ NoHandIn \notin HandIns
    /\ Kinds \subseteq {"checkpoint", "ask", "need"}
    /\ Faults \subseteq FaultKinds
    /\ MaxCalls \in Nat
    /\ MaxFaults \in Nat

VARIABLES
    born,       \* the run node exists
    stage,      \* its current_stage
    go,         \* numbers that are the stage of a checkpoint_go event of its journal
    graph,      \* hand-ins whose claims are in the graph
    index,      \* methodist_idempotency: key of a hand-in -> recorded verdict
    pc, kind, hand, verdict, seen, committed,   \* the calls
    earned,     \* history: GO verdicts the model has given
    replies,    \* history: hand-ins replayed or found good, <<key, outcome, verdict>>
    calls, faults

run   == <<born, stage, go>>
store == <<graph, index>>
call  == <<kind, hand, verdict, seen, committed>>
vars  == <<run, store, pc, call, earned, replies, calls, faults>>

(* The key of a hand-in is text: of its stage, and of the hash of its records.
   A number and the digits that spell it are the same text. *)
Text(v) == IF v.type = "digits" THEN Number(v.num) ELSE v
Key(h)  == <<h.hash, Text(h.stage)>>
Keys    == {Key(h) : h \in HandIns}

PC == {"idle", "route", "diagnose", "create", "idem", "stop", "gates", "model", "askModel",
       "claims", "outcome", "read", "put", "append", "door"}

(* Every variable has its type. *)
TypeOK ==
    /\ born \in BOOLEAN /\ stage \in JsonValue /\ go \subseteq Int
    /\ graph \subseteq HandIns
    /\ index \in [Keys -> Verdict \cup {"none"}]
    /\ pc \in [Calls -> PC]
    /\ kind \in [Calls -> {"diagnose", "checkpoint", "ask", "need"}]
    /\ hand \in [Calls -> HandIns \cup {NoHandIn}]
    /\ verdict \in [Calls -> Verdict \cup {"none"}]
    /\ seen \in [Calls -> JsonValue]
    /\ committed \in [Calls -> BOOLEAN]
    /\ earned \in Nat /\ calls \in Nat /\ faults \in Nat
    /\ replies \subseteq Keys \X {"idempotent", "ok"} \X (Verdict \cup {"none"})

Init ==
    /\ born = FALSE /\ stage = Null /\ go = {}
    /\ graph = {} /\ index = [k \in Keys |-> "none"]
    /\ pc = [c \in Calls |-> "idle"]
    /\ kind = [c \in Calls |-> "ask"] /\ hand = [c \in Calls |-> NoHandIn]
    /\ verdict = [c \in Calls |-> "none"] /\ seen = [c \in Calls |-> Null]
    /\ committed = [c \in Calls |-> FALSE]
    /\ earned = 0 /\ replies = {} /\ calls = 0 /\ faults = 0

At(c, l)   == pc[c] = l
Goto(c, l) == pc' = [pc EXCEPT ![c] = l]
Fault(f)   == f \in Faults /\ faults < MaxFaults /\ faults' = faults + 1
NoFault    == UNCHANGED faults

(* The call is answered; its blackboard goes. *)
Answer(c, outcome, v) ==
    /\ pc' = [pc EXCEPT ![c] = "idle"]
    /\ kind' = [kind EXCEPT ![c] = "ask"]
    /\ hand' = [hand EXCEPT ![c] = NoHandIn]
    /\ verdict' = [verdict EXCEPT ![c] = "none"]
    /\ seen' = [seen EXCEPT ![c] = Null]
    /\ committed' = [committed EXCEPT ![c] = FALSE]
    /\ replies' = IF outcome \in {"idempotent", "ok"}
                  THEN replies \cup {<<Key(hand[c]), outcome, v>>} ELSE replies
Continue(c, l) == Goto(c, l) /\ UNCHANGED <<call, replies>>

-----------------------------------------------------------------------------
(* A request arrives.  The door answers unknown_run for a run that does not
   exist; a request without a run is a diagnosis. *)
Arrive(c) ==
    /\ At(c, "idle") /\ calls < MaxCalls
    /\ calls' = IF born THEN calls + 1 ELSE calls
    /\ \E k \in IF born THEN Kinds ELSE {"diagnose"} :
         /\ kind' = [kind EXCEPT ![c] = k]
         /\ \E h \in IF k = "checkpoint" THEN HandIns ELSE {NoHandIn} : hand' = [hand EXCEPT ![c] = h]
         /\ Goto(c, IF k = "need" THEN "read" ELSE "route")
    /\ UNCHANGED <<run, store, verdict, seen, committed, earned, replies, faults>>

(* fetch-run-state and route-intent: a read that fails looks like no run, and
   then even a hand-in is diagnosed. *)
Route(c) ==
    /\ At(c, "route")
    /\ \/ /\ NoFault
          /\ Continue(c, CASE kind[c] = "diagnose"   -> "diagnose"
                           [] kind[c] = "checkpoint" -> "idem"
                           [] OTHER                  -> "askModel")
       \/ kind[c] # "diagnose" /\ Fault("run") /\ Continue(c, "diagnose")
    /\ UNCHANGED <<run, store, earned, calls>>

(* diagnose: without a cycle the gate ends it before a run is created.  The
   run another diagnosis creates is not the run of this module. *)
Diagnose(c) ==
    /\ At(c, "diagnose") /\ NoFault
    /\ \/ Answer(c, "diagnose_failed", "none")
       \/ kind[c] = "diagnose" /\ Continue(c, "create")
       \/ kind[c] # "diagnose" /\ Answer(c, "diagnosed", "none")
    /\ UNCHANGED <<run, store, earned, calls>>

(* create-run; when it fails, update-run-state finds no run and is rejected. *)
CreateRun(c) ==
    /\ At(c, "create")
    /\ \/ born /\ NoFault /\ UNCHANGED born /\ Answer(c, "diagnosed", "none")
       \/ ~born /\ NoFault /\ born' = TRUE /\ Continue(c, "read")
       \/ ~born /\ Fault("run") /\ UNCHANGED born /\ Answer(c, "rejected", "none")
    /\ UNCHANGED <<stage, go, store, earned, calls>>

-----------------------------------------------------------------------------
(* The checkpoint procedure. *)

(* check-idempotency: an index that cannot be read does not stop the call. *)
CheckIdempotency(c) ==
    /\ At(c, "idem")
    /\ \/ /\ NoFault /\ index[Key(hand[c])] # "none"
          /\ Answer(c, "idempotent", index[Key(hand[c])])
       \/ NoFault /\ index[Key(hand[c])] = "none" /\ Continue(c, "stop")
       \/ Fault("index") /\ Continue(c, "stop")
    /\ UNCHANGED <<run, store, earned, calls>>

(* check-stop-rule: the number handed in needs the GO of the one before it,
   what is not a finite number passes; a path that cannot be read holds no GO. *)
PrevGo(h, path) ==
    \/ h.stage.type \in {"absent", "text", "huge"}
    \/ h.stage.num <= 1
    \/ h.stage.num - 1 \in path

CheckStopRule(c) ==
    /\ At(c, "stop")
    /\ \E path \in {go, {}} :
         /\ IF path = go THEN NoFault ELSE Fault("journal")
         /\ IF PrevGo(hand[c], path) THEN Continue(c, "gates")
            ELSE Answer(c, "prev_stage_not_go", "none")
    /\ UNCHANGED <<run, store, earned, calls>>

(* The gates on language and on the claimed tool usage, whose read failure
   asks for a new hand-in. *)
Gates(c) ==
    /\ At(c, "gates") /\ NoFault
    /\ \/ Continue(c, "model")
       \/ \E o \in {"non_english_rejected", "crosscheck_fabrication_block", "crosscheck_inconclusive"} :
            Answer(c, o, "none")
    /\ UNCHANGED <<run, store, earned, calls>>

(* call-model, the record transforms and the verification.  An answer that
   cannot be read rejects the call; a model that fails in both attempts
   leaves no verdict, and the call goes on. *)
Judge(c) ==
    /\ At(c, "model")
    /\ \/ /\ NoFault
          /\ \E v \in Verdict :
               /\ verdict' = [verdict EXCEPT ![c] = v]
               /\ earned' = IF v = "GO" THEN earned + 1 ELSE earned
               /\ Goto(c, IF v = "GO" THEN "claims" ELSE "outcome")
          /\ UNCHANGED <<kind, hand, seen, committed, replies>>
       \/ NoFault /\ Answer(c, "rejected", "none") /\ UNCHANGED earned
       \/ Fault("model") /\ Continue(c, "outcome") /\ UNCHANGED earned
    /\ UNCHANGED <<run, store, calls>>

(* commit-bundle-atomic puts the records one by one, claims first, then the
   outcome activity; a put that fails ends the step, not the call. *)
CommitClaims(c) ==
    /\ At(c, "claims")
    /\ \/ NoFault /\ graph' = graph \cup {hand[c]} /\ Continue(c, "outcome")
       \/ Fault("graph") /\ UNCHANGED graph /\ Continue(c, "read")
    /\ UNCHANGED <<run, index, earned, calls>>

CommitOutcome(c) ==
    /\ At(c, "outcome")
    /\ \/ NoFault /\ committed' = [committed EXCEPT ![c] = TRUE]
       \/ Fault("graph") /\ UNCHANGED committed
    /\ Goto(c, "read")
    /\ UNCHANGED <<run, store, kind, hand, verdict, seen, earned, replies, calls>>

-----------------------------------------------------------------------------
(* update-run-state, of every procedure: get, put, append. *)

Done(c)  == IF kind[c] = "checkpoint" THEN Continue(c, "door") ELSE Answer(c, "done", "none")

ReadRun(c) ==
    /\ At(c, "read")
    /\ \/ /\ NoFault
          /\ seen' = [seen EXCEPT ![c] = stage]
          /\ Goto(c, "put")
          /\ UNCHANGED <<kind, hand, verdict, committed, replies>>
       \/ Fault("run") /\ Done(c)
    /\ UNCHANGED <<run, store, earned, calls>>

(* current_stage + 1: JavaScript adds a number to a number and text to text,
   and takes null and a boolean for numbers. *)
PlusOne(v) ==
    CASE v.type = "digits" -> [v EXCEPT !.num = 10 * @ + 1]
      [] v.type = "text"   -> v
      [] OTHER             -> Number(v.num + 1)

(* The stage a payload leaves on the run: none changes nothing, and what JSON
   cannot write is null. *)
Stored(v, read) ==
    CASE v.type = "absent" -> read
      [] v.type = "huge"   -> Null
      [] OTHER             -> v

\* Mutated form: a RETURN advances the stage, too.
NextStageAlways(c) ==
    CASE kind[c] = "diagnose"                          -> Number(1)
      [] kind[c] = "checkpoint" /\ verdict[c] # "none" -> PlusOne(seen[c])
      [] kind[c] = "checkpoint" /\ verdict[c] = "none" -> Stored(hand[c].stage, seen[c])
      [] OTHER                                         -> seen[c]

(* The stage of the node that is put back: a diagnosis sets it, a GO advances
   it, a RETURN, a question and a need leave what was read; a checkpoint
   without a verdict takes the stage of the payload. *)
NextStage(c) ==
    CASE kind[c] = "diagnose"                          -> Number(1)
      [] kind[c] = "checkpoint" /\ verdict[c] = "GO"   -> PlusOne(seen[c])
      [] kind[c] = "checkpoint" /\ verdict[c] = "none" -> Stored(hand[c].stage, seen[c])
      [] OTHER                                         -> seen[c]

PutRun(c) ==
    /\ At(c, "put")
    /\ \/ NoFault /\ stage' = NextStage(c) /\ Continue(c, "append")
       \/ Fault("run") /\ UNCHANGED stage /\ Done(c)
    /\ UNCHANGED <<born, go, store, earned, calls>>

(* The typed event names the stage that was read; the path keeps those that are
   numbers. *)
AppendEvent(c) ==
    /\ At(c, "append")
    /\ \/ NoFault /\ go' = IF verdict[c] = "GO" /\ seen[c].type = "number"
                           THEN go \cup {seen[c].num} ELSE go
       \/ Fault("journal") /\ UNCHANGED go
    /\ Done(c)
    /\ UNCHANGED <<born, stage, store, earned, calls>>

-----------------------------------------------------------------------------
\* Mutated form: a GO is recorded whether or not its bundle was committed.
Judged(c)     == verdict[c] # "none"
\* Mutated form: the last writer wins.
Overwritten(k, v) == v

(* The door records a RETURN, and a GO whose bundle was committed, under the
   key of the hand-in unless that has no stage; the first writer wins.  A write
   that fails hides the verdict from the caller. *)
Recordable(c) ==
    /\ hand[c].stage.type \notin {"null", "absent"}
    /\ verdict[c] = "RETURN" \/ (verdict[c] = "GO" /\ committed[c])
Recorded(k, v) == IF index[k] = "none" THEN v ELSE index[k]

Door(c) ==
    /\ At(c, "door")
    /\ \/ /\ NoFault
          /\ index' = IF Recordable(c)
                      THEN [index EXCEPT ![Key(hand[c])] = Recorded(Key(hand[c]), verdict[c])]
                      ELSE index
          /\ Answer(c, IF verdict[c] = "none" THEN "ok" ELSE verdict[c], verdict[c])
       \/ Recordable(c) /\ Fault("index") /\ UNCHANGED index /\ Answer(c, "methodist_failed", "none")
    /\ UNCHANGED <<run, graph, earned, calls>>

(* ask: the model's answer, then update-run-state with what it adjusts. *)
Ask(c) ==
    /\ At(c, "askModel")
    /\ \/ NoFault /\ Answer(c, "rejected", "none")
       \/ NoFault /\ Continue(c, "read")
    /\ UNCHANGED <<run, store, earned, calls>>

(* The server dies and every call with it. *)
Crash ==
    /\ Fault("crash")
    /\ pc' = [c \in Calls |-> "idle"]
    /\ kind' = [c \in Calls |-> "ask"] /\ hand' = [c \in Calls |-> NoHandIn]
    /\ verdict' = [c \in Calls |-> "none"] /\ seen' = [c \in Calls |-> Null]
    /\ committed' = [c \in Calls |-> FALSE]
    /\ UNCHANGED <<run, store, earned, replies, calls>>

Step(c) ==
    \/ Route(c) \/ Diagnose(c) \/ CreateRun(c) \/ CheckIdempotency(c) \/ CheckStopRule(c) \/ Gates(c)
    \/ Judge(c) \/ CommitClaims(c) \/ CommitOutcome(c) \/ ReadRun(c) \/ PutRun(c) \/ AppendEvent(c)
    \/ Door(c) \/ Ask(c)

Next == Crash \/ \E c \in Calls : Arrive(c) \/ Step(c)

Spec == Init /\ [][Next]_vars

-----------------------------------------------------------------------------
(***************************************************************************)
(* A stage is earned: a run whose stage is a number is never further than  *)
(* one stage past the GO verdicts the model has given, and the path holds  *)
(* no GO of a stage beyond them, whatever calls overlap, whatever value    *)
(* the payloads have for a stage and wherever the server stops             *)
(* (update-run-state.ts, the server-tracked stage).  A stage that has      *)
(* become text is none the server counts with: no path has its GO.         *)
(***************************************************************************)
AdvanceEarned ==
    /\ stage.type = "number" => stage.num <= earned + 1
    /\ \A s \in go : s <= earned

(***************************************************************************)
(* Two replays of one hand-in carry the same verdict, also when two calls  *)
(* judged it at the same time (recordMethodistIdempotency, first writer    *)
(* wins).  One hand-in is one key: the records and the text of the stage.  *)
(***************************************************************************)
ReplaysAgree ==
    \A r, s \in replies :
        (r[2] = "idempotent" /\ s[2] = "idempotent" /\ r[1] = s[1]) => r[3] = s[3]

(***************************************************************************)
(* A GO that can be replayed is a GO whose claims are in the graph: the    *)
(* door does not record one whose commit failed part of the way.           *)
(***************************************************************************)
ReplayedGoCommitted ==
    \A k \in Keys : index[k] = "GO" => \E h \in graph : Key(h) = k

(***************************************************************************)
(* A hand-in that is answered without an error was graded: "an explicit    *)
(* reject stops the agent, a false ok does not" (call-model.ts).           *)
(***************************************************************************)
OkMeansGraded == \A r \in replies : r[2] = "ok" => r[3] # "none"
=============================================================================
