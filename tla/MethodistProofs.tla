--------------------------- MODULE MethodistProofs ---------------------------
(***************************************************************************)
(* The methodist door, proved for any number of calls, hand-ins and        *)
(* failures: the variables keep their types, a stage is earned, replays    *)
(* agree, and a GO that can be replayed has its claims in the graph.       *)
(***************************************************************************)
EXTENDS Methodist, FiniteSetTheorems, TLAPS

-----------------------------------------------------------------------------
(* What a call holds at each of its steps: a hand-in when it is a checkpoint,
   a verdict only after the model, a committed bundle only after the commit. *)

Graded == {"claims", "outcome", "read", "put", "append", "door"}

CallOK ==
    \A c \in Calls :
        /\ kind[c] = "checkpoint" => hand[c] \in HandIns
        /\ pc[c] \in {"idem", "stop", "gates", "model", "claims", "outcome", "door"}
              => kind[c] = "checkpoint"
        /\ pc[c] \in {"create", "askModel"} => kind[c] # "checkpoint"
        /\ verdict[c] # "none" => kind[c] = "checkpoint" /\ pc[c] \in Graded
        /\ pc[c] = "claims" => verdict[c] = "GO"
        /\ committed[c] => pc[c] \in {"read", "put", "append", "door"}

(* Type correctness. *)

(* The values of a stage. *)
LEMMA NullType == Null \in JsonValue
BY DEF Null, JsonValue

LEMMA NumberType == \A n \in Int : Number(n) \in JsonValue
BY DEF Number, JsonValue

(* Adding one to a stage gives a stage. *)
LEMMA PlusOneType == \A v \in JsonValue : PlusOne(v) \in JsonValue
<1> SUFFICES ASSUME NEW v \in JsonValue PROVE PlusOne(v) \in JsonValue
  OBVIOUS
<1>1. CASE v \in [type : {"digits"}, num : Nat]
  <2>1. 10 * v.num + 1 \in Nat
    BY <1>1
  <2> QED  BY <1>1, <2>1 DEF PlusOne, JsonValue
<1>2. CASE v \in [type : {"null", "text"}, num : {0}]
  BY <1>2, NumberType DEF PlusOne
<1>3. CASE v \in [type : {"number"}, num : Int] \cup [type : {"boolean"}, num : {0, 1}]
  BY <1>3, NumberType DEF PlusOne
<1> QED  BY <1>1, <1>2, <1>3 DEF JsonValue

(* What a payload leaves on the run is a stage. *)
LEMMA StoredType ==
    \A v \in StageValue, read \in JsonValue : Stored(v, read) \in JsonValue
BY NullType DEF Stored, StageValue

(* A hand-in has a key. *)
LEMMA KeyOf == \A h \in HandIns : Key(h) \in Keys
BY DEF Keys

(* The types of a call that is answered. *)
LEMMA AnswerType ==
    ASSUME TypeOK, NEW c \in Calls, NEW o, NEW v \in Verdict \cup {"none"}, Answer(c, o, v),
           o \in {"idempotent", "ok"} => hand[c] \in HandIns
    PROVE  /\ pc' \in [Calls -> PC]
           /\ kind' \in [Calls -> {"diagnose", "checkpoint", "ask", "need"}]
           /\ hand' \in [Calls -> HandIns \cup {NoHandIn}]
           /\ verdict' \in [Calls -> Verdict \cup {"none"}]
           /\ seen' \in [Calls -> JsonValue]
           /\ committed' \in [Calls -> BOOLEAN]
           /\ replies' \subseteq Keys \X {"idempotent", "ok"} \X (Verdict \cup {"none"})
BY NullType, KeyOf DEF TypeOK, Answer, PC

(* The types of a call that goes on. *)
LEMMA ContinueType ==
    ASSUME TypeOK, NEW c \in Calls, NEW l \in PC, Continue(c, l)
    PROVE  /\ pc' \in [Calls -> PC]
           /\ kind' \in [Calls -> {"diagnose", "checkpoint", "ask", "need"}]
           /\ hand' \in [Calls -> HandIns \cup {NoHandIn}]
           /\ verdict' \in [Calls -> Verdict \cup {"none"}]
           /\ seen' \in [Calls -> JsonValue]
           /\ committed' \in [Calls -> BOOLEAN]
           /\ replies' \subseteq Keys \X {"idempotent", "ok"} \X (Verdict \cup {"none"})
BY DEF TypeOK, Continue, Goto, call

(* A fault is counted. *)
LEMMA FaultType ==
    ASSUME TypeOK, NoFault \/ \E f \in FaultKinds : Fault(f)
    PROVE  faults' \in Nat
BY DEF TypeOK, NoFault, Fault

LEMMA TypeStep == ASSUME TypeOK, CallOK, [Next]_vars PROVE TypeOK'
<1> USE DEF FaultKinds
<1>1. CASE UNCHANGED vars
  BY <1>1 DEF TypeOK, vars, run, store, call
<1>2. CASE Crash
  BY <1>2, FaultType, NullType DEF TypeOK, Crash, run, store, PC, Verdict, Fault
<1>3. ASSUME NEW c \in Calls, Arrive(c)  PROVE TypeOK'
  <2>1. PICK k \in IF born THEN Kinds ELSE {"diagnose"} :
          /\ kind' = [kind EXCEPT ![c] = k]
          /\ \E h \in IF k = "checkpoint" THEN HandIns ELSE {NoHandIn} : hand' = [hand EXCEPT ![c] = h]
          /\ Goto(c, IF k = "need" THEN "read" ELSE "route")
    BY <1>3 DEF Arrive
  <2>2. k \in {"diagnose", "checkpoint", "ask", "need"}
    BY <2>1, ConstantsAssumption
  <2>3. kind' \in [Calls -> {"diagnose", "checkpoint", "ask", "need"}]
    BY <2>1, <2>2 DEF TypeOK
  <2>4. hand' \in [Calls -> HandIns \cup {NoHandIn}]
    BY <2>1 DEF TypeOK
  <2>5. pc' \in [Calls -> PC]
    BY <2>1 DEF TypeOK, Goto, PC
  <2>6. calls' \in Nat
    BY <1>3 DEF TypeOK, Arrive
  <2> QED  BY <1>3, <2>3, <2>4, <2>5, <2>6 DEF TypeOK, Arrive, run, store
<1>4. ASSUME NEW c \in Calls, Step(c)  PROVE TypeOK'
  <2>1. CASE Route(c)
    BY <2>1, ContinueType, FaultType DEF Route, TypeOK, run, store, PC
  <2>2. CASE Diagnose(c)
    BY <2>2, ContinueType, AnswerType, FaultType DEF Diagnose, TypeOK, run, store, PC
  <2>3. CASE CreateRun(c)
    BY <2>3, ContinueType, AnswerType, FaultType DEF CreateRun, TypeOK, run, store, PC
  <2>4. CASE CheckIdempotency(c)
    <3>1. hand[c] \in HandIns /\ Key(hand[c]) \in Keys
      BY <2>4, KeyOf DEF CheckIdempotency, CallOK, At
    <3>2. index[Key(hand[c])] \in Verdict \cup {"none"}
      BY <3>1 DEF TypeOK
    <3> QED  BY <2>4, <3>1, <3>2, ContinueType, AnswerType, FaultType
             DEF CheckIdempotency, TypeOK, run, store, PC
  <2>5. CASE CheckStopRule(c)
    <3>1. faults' \in Nat
      BY <2>5, FaultType DEF CheckStopRule
    <3> QED  BY <2>5, <3>1, ContinueType, AnswerType DEF CheckStopRule, TypeOK, run, store, PC
  <2>6. CASE Gates(c)
    BY <2>6, ContinueType, AnswerType, FaultType DEF Gates, TypeOK, run, store, PC
  <2>7. CASE Judge(c)
    <3>1. faults' \in Nat
      BY <2>7, FaultType DEF Judge
    <3>2. CASE \E v \in Verdict :
                 /\ verdict' = [verdict EXCEPT ![c] = v]
                 /\ earned' = IF v = "GO" THEN earned + 1 ELSE earned
                 /\ Goto(c, IF v = "GO" THEN "claims" ELSE "outcome")
                 /\ UNCHANGED <<kind, hand, seen, committed, replies>>
      BY <2>7, <3>1, <3>2 DEF Judge, TypeOK, Goto, run, store, PC, Verdict
    <3>3. CASE Answer(c, "rejected", "none") /\ UNCHANGED earned
      BY <2>7, <3>1, <3>3, AnswerType DEF Judge, TypeOK, run, store
    <3>4. CASE Continue(c, "outcome") /\ UNCHANGED earned
      BY <2>7, <3>1, <3>4, ContinueType DEF Judge, TypeOK, run, store, PC
    <3> QED  BY <2>7, <3>2, <3>3, <3>4 DEF Judge
  <2>8. CASE CommitClaims(c)
    <3>1. faults' \in Nat
      BY <2>8, FaultType DEF CommitClaims
    <3>2. hand[c] \in HandIns
      BY <2>8 DEF CommitClaims, CallOK, At
    <3>3. graph' \subseteq HandIns
      BY <2>8, <3>2 DEF CommitClaims, TypeOK
    <3> QED  BY <2>8, <3>1, <3>3, ContinueType DEF CommitClaims, TypeOK, run, PC
  <2>9. CASE CommitOutcome(c)
    BY <2>9, FaultType DEF CommitOutcome, TypeOK, Goto, run, store, PC
  <2>10. CASE ReadRun(c)
    <3>1. faults' \in Nat
      BY <2>10, FaultType DEF ReadRun
    <3>2. CASE Done(c)
      BY <2>10, <3>1, <3>2, ContinueType, AnswerType DEF ReadRun, Done, TypeOK, run, store, PC
    <3>3. CASE /\ seen' = [seen EXCEPT ![c] = stage] /\ Goto(c, "put")
               /\ UNCHANGED <<kind, hand, verdict, committed, replies>>
      BY <2>10, <3>1, <3>3 DEF ReadRun, Goto, TypeOK, run, store, PC
    <3> QED  BY <2>10, <3>2, <3>3 DEF ReadRun
  <2>11. CASE PutRun(c)
    <3>1. faults' \in Nat
      BY <2>11, FaultType DEF PutRun
    <3>2. seen[c] \in JsonValue /\ (kind[c] = "checkpoint" => hand[c].stage \in StageValue)
      BY ConstantsAssumption DEF TypeOK, CallOK
    <3>3. NextStage(c) \in JsonValue
      BY <3>2, NumberType, PlusOneType, StoredType DEF NextStage
    <3>4. CASE stage' = NextStage(c) /\ Continue(c, "append")
      BY <2>11, <3>1, <3>3, <3>4, ContinueType DEF PutRun, TypeOK, store, PC
    <3>5. CASE UNCHANGED stage /\ Done(c)
      BY <2>11, <3>1, <3>5, ContinueType, AnswerType DEF PutRun, Done, TypeOK, store, PC
    <3> QED  BY <2>11, <3>4, <3>5 DEF PutRun
  <2>12. CASE AppendEvent(c)
    <3>1. faults' \in Nat
      BY <2>12, FaultType DEF AppendEvent
    <3>2. seen[c] \in JsonValue /\ go \subseteq Int
      BY DEF TypeOK
    <3>3. go' \subseteq Int
      <4>1. go' = go \/ (seen[c].type = "number" /\ go' = go \cup {seen[c].num})
        BY <2>12 DEF AppendEvent
      <4>2. seen[c].type = "number" => seen[c].num \in Int
        BY <3>2 DEF JsonValue
      <4> QED  BY <3>2, <4>1, <4>2
    <3> QED  BY <2>12, <3>1, <3>3, ContinueType, AnswerType DEF AppendEvent, Done, TypeOK, store, PC
  <2>13. CASE Door(c)
    <3>1. faults' \in Nat
      BY <2>13, FaultType DEF Door
    <3>2. hand[c] \in HandIns /\ Key(hand[c]) \in Keys /\ verdict[c] \in Verdict \cup {"none"}
      BY <2>13, KeyOf DEF Door, At, CallOK, TypeOK
    <3>3. index' \in [Keys -> Verdict \cup {"none"}]
      BY <2>13, <3>2 DEF Door, Recorded, TypeOK
    <3> QED  BY <2>13, <3>1, <3>2, <3>3, AnswerType DEF Door, TypeOK, run
  <2>14. CASE Ask(c)
    BY <2>14, FaultType, ContinueType, AnswerType DEF Ask, TypeOK, run, store, PC
  <2> QED  BY <1>4, <2>1, <2>2, <2>3, <2>4, <2>5, <2>6, <2>7, <2>8, <2>9, <2>10, <2>11,
              <2>12, <2>13, <2>14 DEF Step
<1> QED  BY <1>1, <1>2, <1>3, <1>4 DEF Next

-----------------------------------------------------------------------------
(* The steps keep CallOK. *)

LEMMA CallStep == ASSUME TypeOK, CallOK, [Next]_vars PROVE CallOK'
<1>1. CASE UNCHANGED vars
  BY <1>1 DEF CallOK, vars, run, store, call
<1>2. CASE Crash
  BY <1>2 DEF CallOK, Crash, Graded
<1>3. ASSUME NEW c \in Calls, Arrive(c)  PROVE CallOK'
  BY <1>3, ConstantsAssumption DEF CallOK, TypeOK, Arrive, At, Goto, Graded
<1>4. ASSUME NEW c \in Calls, Step(c)  PROVE CallOK'
  <2>1. CASE Route(c)
    BY <2>1 DEF CallOK, TypeOK, Route, At, Continue, Goto, call, Graded
  <2>2. CASE Diagnose(c)
    BY <2>2 DEF CallOK, TypeOK, Diagnose, At, Continue, Answer, Goto, call, Graded
  <2>3. CASE CreateRun(c)
    BY <2>3 DEF CallOK, TypeOK, CreateRun, At, Continue, Answer, Goto, call, Graded
  <2>4. CASE CheckIdempotency(c)
    BY <2>4 DEF CallOK, TypeOK, CheckIdempotency, At, Continue, Answer, Goto, call, Graded
  <2>5. CASE CheckStopRule(c)
    BY <2>5 DEF CallOK, TypeOK, CheckStopRule, At, Continue, Answer, Goto, call, Graded
  <2>6. CASE Gates(c)
    BY <2>6 DEF CallOK, TypeOK, Gates, At, Continue, Answer, Goto, call, Graded
  <2>7. CASE Judge(c)
    BY <2>7 DEF CallOK, TypeOK, Judge, At, Continue, Answer, Goto, call, Graded, Verdict
  <2>8. CASE CommitClaims(c)
    BY <2>8 DEF CallOK, TypeOK, CommitClaims, At, Continue, Goto, call, Graded
  <2>9. CASE CommitOutcome(c)
    BY <2>9 DEF CallOK, TypeOK, CommitOutcome, At, Goto, Graded
  <2>10. CASE ReadRun(c)
    BY <2>10 DEF CallOK, TypeOK, ReadRun, At, Done, Continue, Answer, Goto, call, Graded
  <2>11. CASE PutRun(c)
    BY <2>11 DEF CallOK, TypeOK, PutRun, At, Done, Continue, Answer, Goto, call, Graded
  <2>12. CASE AppendEvent(c)
    BY <2>12 DEF CallOK, TypeOK, AppendEvent, At, Done, Continue, Answer, Goto, call, Graded
  <2>13. CASE Door(c)
    BY <2>13 DEF CallOK, TypeOK, Door, At, Answer, Graded
  <2>14. CASE Ask(c)
    BY <2>14 DEF CallOK, TypeOK, Ask, At, Continue, Answer, Goto, call, Graded
  <2> QED  BY <1>4, <2>1, <2>2, <2>3, <2>4, <2>5, <2>6, <2>7, <2>8, <2>9, <2>10, <2>11,
              <2>12, <2>13, <2>14 DEF Step
<1> QED  BY <1>1, <1>2, <1>3, <1>4 DEF Next

LEMMA InitOK == Init => TypeOK /\ CallOK
<1> SUFFICES ASSUME Init PROVE TypeOK /\ CallOK
  OBVIOUS
<1>1. TypeOK
  BY NullType DEF Init, TypeOK, PC, Verdict
<1>2. CallOK
  BY DEF Init, CallOK
<1> QED  BY <1>1, <1>2

LEMMA CallsHold == Spec => [](TypeOK /\ CallOK)
<1>1. TypeOK /\ CallOK /\ [Next]_vars => (TypeOK /\ CallOK)'
  BY TypeStep, CallStep
<1> QED  BY InitOK, <1>1, PTL DEF Spec

(***************************************************************************)
(* Every variable of the door has its type, whatever the constants.        *)
(***************************************************************************)
THEOREM TypeCorrect == Spec => []TypeOK
BY CallsHold, PTL

-----------------------------------------------------------------------------
(* A stage is earned.  A GO verdict of the model that has not advanced the
   stage yet is pending; everything a call has read, or has been told by its
   payload, leaves room for the pending ones. *)

Pending == {c \in Calls : verdict[c] = "GO" /\ pc[c] \in {"claims", "outcome", "read", "put"}}
Owed    == Cardinality(Pending)

\* How far a stage has come: one that is text counts for none.
Level(v) == IF v.type \in {"number", "boolean"} THEN v.num ELSE 0

RunStageOK ==
    /\ Owed <= earned
    /\ Level(stage) + Owed <= earned + 1
    /\ \A s \in go : s + Owed <= earned

CallStageOK(c) ==
    /\ pc[c] = "put" => Level(seen[c]) + Owed <= earned + 1
    /\ pc[c] = "append" /\ verdict[c] = "GO" => Level(seen[c]) + Owed <= earned
    /\ kind[c] = "checkpoint" /\ pc[c] \in {"gates", "model", "claims", "outcome", "read", "put"}
          => Level(hand[c].stage) + Owed <= earned + 1

StageOK == RunStageOK /\ \A c \in Calls : CallStageOK(c)

(* Facts of arithmetic, with p and p' pending, e and e' earned. *)
LEMMA NoMore == \A p, q, e, f \in Nat : q <= p /\ f = e => q + e <= p + f
OBVIOUS

(* A stage that was earned stays earned when a verdict given pays for one owed. *)
LEMMA NotOutgrown ==
    \A p, q, e, f \in Nat : q + e <= p + f =>
        /\ p <= e => q <= f
        /\ \A s \in Int : /\ s + p <= e => s + q <= f
                          /\ s + p <= e + 1 => s + q <= f + 1
OBVIOUS

(* The same, without a bound on what is owed. *)
LEMMA AloneNotOutgrown ==
    \A p, q, e, f \in Nat, s \in Int :
        /\ q + e <= p + f /\ s + p <= e => s + q <= f
        /\ q + e <= p + f /\ s + p <= e + 1 => s + q <= f + 1
OBVIOUS

(* A level is a number, and adding one to a stage adds no more to it; what a
   payload leaves on the run is no further than the payload or what was read. *)
LEMMA LevelType == \A v \in StageValue : Level(v) \in Int
BY DEF Level, StageValue, JsonValue

LEMMA LevelRead == \A v \in JsonValue : v \in StageValue /\ Level(v) \in Int
BY LevelType DEF StageValue

LEMMA LevelPlusOne == \A v \in JsonValue : Level(PlusOne(v)) <= Level(v) + 1
<1> SUFFICES ASSUME NEW v \in JsonValue PROVE Level(PlusOne(v)) <= Level(v) + 1
  OBVIOUS
<1>1. CASE v \in [type : {"digits"}, num : Nat]
  BY <1>1 DEF PlusOne, Level
<1>2. CASE v \in [type : {"null", "text"}, num : {0}]
  BY <1>2 DEF PlusOne, Level, Number
<1>3. CASE v \in [type : {"number"}, num : Int] \cup [type : {"boolean"}, num : {0, 1}]
  BY <1>3 DEF PlusOne, Level, Number
<1> QED  BY <1>1, <1>2, <1>3 DEF JsonValue

LEMMA LevelStored ==
    \A v \in StageValue, read \in JsonValue :
        Level(Stored(v, read)) \in {Level(v), Level(read)}
BY DEF Stored, StageValue, JsonValue, Level, Null

(* The stop rule lets pass what is at most one, or follows a GO. *)
LEMMA LevelPasses ==
    \A h \in HandIns, path \in SUBSET Int :
        PrevGo(h, path) => Level(h.stage) <= 1 \/ Level(h.stage) - 1 \in path
BY ConstantsAssumption DEF PrevGo, Level, StageValue, JsonValue

(* What is owed is a number of calls. *)
LEMMA OwedType ==
    /\ IsFiniteSet(Pending) /\ IsFiniteSet(Pending')
    /\ Owed \in Nat /\ Owed' \in Nat
<1>1. Pending \subseteq Calls /\ Pending' \subseteq Calls
  BY DEF Pending
<1> QED  BY <1>1, ConstantsAssumption, FS_Subset, FS_CardinalityType DEF Owed

(* A step that leaves no new verdict pending owes no more than before. *)
LEMMA OwedFewer == ASSUME Pending' \subseteq Pending PROVE Owed' <= Owed
BY OwedType, FS_Subset DEF Owed

(* Nothing new is owed, whatever was earned. *)
LEMMA OwedNoMore ==
    ASSUME TypeOK, Pending' \subseteq Pending, earned' = earned
    PROVE  Owed' + earned <= Owed + earned'
<1>1. Owed \in Nat /\ Owed' \in Nat /\ earned \in Nat /\ earned' \in Nat
  BY OwedType DEF TypeOK
<1>2. Owed' <= Owed
  BY OwedFewer
<1> QED  BY <1>1, <1>2, NoMore

(* One call more owes a stage. *)
LEMMA OwedOneMore ==
    ASSUME NEW c, c \notin Pending, Pending' = Pending \cup {c}
    PROVE  Owed' = Owed + 1
BY OwedType, FS_AddElement DEF Owed

(* One call less owes a stage. *)
LEMMA OwedOneLess ==
    ASSUME NEW c \in Pending, Pending' = Pending \ {c}
    PROVE  Owed' = Owed - 1
BY OwedType, FS_RemoveElement DEF Owed

(* An answer owes nothing. *)
LEMMA AnswerPending ==
    ASSUME TypeOK, NEW c \in Calls, NEW o, NEW v, Answer(c, o, v)
    PROVE  Pending' \subseteq Pending
BY DEF TypeOK, Answer, Pending

(* A call that goes on to no new GO owes no more. *)
LEMMA ContinuePending ==
    ASSUME TypeOK, NEW c \in Calls, NEW l, Continue(c, l),
           c \in Pending \/ verdict[c] # "GO" \/ l \in {"append", "door"}
    PROVE  Pending' \subseteq Pending
BY DEF TypeOK, Continue, Goto, call, Pending

Same(d) == /\ pc'[d] = pc[d] /\ kind'[d] = kind[d] /\ hand'[d] = hand[d]
           /\ verdict'[d] = verdict[d] /\ seen'[d] = seen[d]

(* A step of one call leaves the others alone. *)
LEMMA Others ==
    ASSUME TypeOK, NEW c \in Calls, Arrive(c) \/ Step(c), NEW d \in Calls, d # c
    PROVE  Same(d)
<1> USE DEF TypeOK, Same, Goto, Continue, Answer, Done, call
<1>1. CASE Arrive(c)
  BY <1>1 DEF Arrive
<1>2. CASE Route(c) \/ Diagnose(c) \/ CreateRun(c) \/ CheckIdempotency(c) \/ CheckStopRule(c)
  BY <1>2 DEF Route, Diagnose, CreateRun, CheckIdempotency, CheckStopRule
<1>3. CASE Gates(c) \/ Judge(c) \/ CommitClaims(c) \/ CommitOutcome(c)
  BY <1>3 DEF Gates, Judge, CommitClaims, CommitOutcome
<1>4. CASE ReadRun(c) \/ PutRun(c) \/ AppendEvent(c) \/ Door(c) \/ Ask(c)
  BY <1>4 DEF ReadRun, PutRun, AppendEvent, Door, Ask
<1> QED  BY <1>1, <1>2, <1>3, <1>4 DEF Step

(* What is promised of a call that does not move stays true while no step
   makes the pending verdicts outgrow the given ones. *)
LEMMA SameKept ==
    ASSUME TypeOK, TypeOK', CallOK, StageOK, NEW d \in Calls, Same(d),
           Owed' + earned <= Owed + earned'
    PROVE  CallStageOK(d)'
<1>1. Owed \in Nat /\ Owed' \in Nat /\ earned \in Nat /\ earned' \in Nat /\ Level(seen[d]) \in Int
  BY OwedType, LevelRead DEF TypeOK
<1>2. kind[d] = "checkpoint" => Level(hand[d].stage) \in Int
  BY ConstantsAssumption, LevelType DEF CallOK
<1>3. CallStageOK(d)
  BY DEF StageOK
<1>4. Level(seen[d]) + Owed <= earned + 1 => Level(seen[d]) + Owed' <= earned' + 1
  BY <1>1, AloneNotOutgrown, Zenon
<1>5. Level(seen[d]) + Owed <= earned => Level(seen[d]) + Owed' <= earned'
  BY <1>1, AloneNotOutgrown, Zenon
<1>6. ASSUME kind[d] = "checkpoint", Level(hand[d].stage) + Owed <= earned + 1
      PROVE  Level(hand[d].stage) + Owed' <= earned' + 1
  <2>1. \A s \in Int : s + Owed <= earned + 1 => s + Owed' <= earned' + 1
    BY <1>1, AloneNotOutgrown, Zenon
  <2> QED  BY <1>2, <1>6, <2>1
<1> QED  BY <1>3, <1>4, <1>5, <1>6 DEF CallStageOK, Same

(* The stage of the run stays earned. *)
LEMMA RunKept ==
    ASSUME TypeOK, TypeOK', StageOK, stage' = stage, go' = go, Owed' + earned <= Owed + earned'
    PROVE  RunStageOK'
<1>1. Owed \in Nat /\ Owed' \in Nat /\ earned \in Nat /\ earned' \in Nat /\ Level(stage) \in Int
  BY OwedType, LevelRead DEF TypeOK
<1>2. Owed <= earned /\ Level(stage) + Owed <= earned + 1
  BY DEF StageOK, RunStageOK
<1>3. Owed' <= earned' /\ Level(stage) + Owed' <= earned' + 1
  BY <1>1, <1>2, NotOutgrown, Zenon
<1>4. ASSUME NEW s \in go  PROVE s + Owed' <= earned'
  <2>1. s \in Int /\ s + Owed <= earned
    BY DEF TypeOK, StageOK, RunStageOK
  <2> QED  BY <1>1, <2>1, NotOutgrown, Zenon
<1> QED  BY <1>3, <1>4 DEF RunStageOK

(* A step that owes no more and moves no stage keeps the stages earned. *)
LEMMA StageKept ==
    ASSUME TypeOK, TypeOK', CallOK, StageOK, NEW c \in Calls, Arrive(c) \/ Step(c),
           UNCHANGED <<stage, go>>, Owed' + earned <= Owed + earned', CallStageOK(c)'
    PROVE  StageOK'
BY Others, SameKept, RunKept DEF StageOK

(* A call that is answered, or goes where nothing is promised of it. *)
LEMMA StageLeft ==
    ASSUME TypeOK, TypeOK', CallOK, StageOK, NEW c \in Calls, Step(c),
           \/ \E o, v : Answer(c, o, v)
           \/ \E l \in {"diagnose", "create", "idem", "stop", "askModel", "read", "door"} :
                /\ Continue(c, l)
                /\ verdict[c] # "GO" \/ l = "door"
                /\ l = "read" => kind[c] # "checkpoint",
           UNCHANGED <<stage, go, earned>>
    PROVE  StageOK'
<1>1. Pending' \subseteq Pending
  BY AnswerPending, ContinuePending
<1>2. Owed' + earned <= Owed + earned'
  BY <1>1, OwedNoMore
<1>3. /\ pc'[c] \in {"idle", "diagnose", "create", "idem", "stop", "askModel", "read", "door"}
      /\ pc'[c] = "read" => kind'[c] # "checkpoint"
  BY DEF call, Answer, Continue, Goto, TypeOK
<1>4. CallStageOK(c)'
  BY <1>3 DEF CallStageOK
<1> QED  BY <1>2, <1>4, StageKept

(* A checkpoint that goes from one step before update-run-state to the next. *)
LEMMA StageMoved ==
    ASSUME TypeOK, TypeOK', CallOK, StageOK, NEW c \in Calls, Step(c),
           pc[c] \in {"gates", "model", "claims", "outcome"},
           pc'[c] \in {"model", "claims", "outcome", "read"},
           kind'[c] = kind[c], hand'[c] = hand[c],
           UNCHANGED <<stage, go>>, Owed' + earned <= Owed + earned'
    PROVE  StageOK'
<1>1. Owed \in Nat /\ Owed' \in Nat /\ earned \in Nat /\ earned' \in Nat
  BY OwedType DEF TypeOK
<1>2. kind[c] = "checkpoint" => Level(hand[c].stage) \in Int
  BY ConstantsAssumption, LevelType DEF CallOK
<1>3. CallStageOK(c)
  BY DEF StageOK
<1>4. kind[c] = "checkpoint" => Level(hand[c].stage) + Owed <= earned + 1
  BY <1>3 DEF CallStageOK
<1>5. ASSUME kind[c] = "checkpoint"  PROVE Level(hand[c].stage) + Owed' <= earned' + 1
  <2>1. \A s \in Int : s + Owed <= earned + 1 => s + Owed' <= earned' + 1
    BY <1>1, AloneNotOutgrown, Zenon
  <2> QED  BY <1>2, <1>4, <1>5, <2>1
<1>6. kind'[c] = "checkpoint" => Level(hand'[c].stage) + Owed' <= earned' + 1
  BY <1>5
<1>7. CallStageOK(c)'
  BY <1>6 DEF CallStageOK
<1> QED  BY <1>7, StageKept

LEMMA StageStep ==
    ASSUME TypeOK, TypeOK', CallOK, StageOK, [Next]_vars
    PROVE  StageOK'
<1>1. CASE UNCHANGED vars
  BY <1>1 DEF StageOK, RunStageOK, CallStageOK, Owed, Pending, vars, run, store, call
<1>2. CASE Crash
  <2>1. Pending' \subseteq Pending
    BY <1>2 DEF Crash, Pending
  <2>2. Owed' + earned <= Owed + earned'
    BY <1>2, <2>1, OwedNoMore DEF Crash
  <2>3. RunStageOK'
    BY <1>2, <2>2, RunKept DEF Crash, run
  <2>4. \A c \in Calls : CallStageOK(c)'
    BY <1>2 DEF Crash, CallStageOK
  <2> QED  BY <2>3, <2>4 DEF StageOK
<1>3. ASSUME NEW c \in Calls, Arrive(c)  PROVE StageOK'
  <2>1. Pending' \subseteq Pending
    BY <1>3 DEF Arrive, At, Goto, Pending, TypeOK, CallOK, Graded
  <2>2. Owed' + earned <= Owed + earned'
    BY <1>3, <2>1, OwedNoMore DEF Arrive
  <2>3. pc'[c] \in {"route", "read"} /\ (kind'[c] = "checkpoint" => pc'[c] = "route")
    BY <1>3, ConstantsAssumption DEF Arrive, Goto, TypeOK
  <2>4. CallStageOK(c)'
    BY <2>3 DEF CallStageOK
  <2> QED  BY <1>3, <2>2, <2>4, StageKept DEF Arrive, run
<1>4. ASSUME NEW c \in Calls, Step(c)  PROVE StageOK'
  <2> USE <1>4
  <2>0. verdict[c] = "GO" => pc[c] \in Graded
    BY DEF CallOK
  <2>1. CASE Route(c)
    BY <2>1, <2>0, StageLeft DEF Route, At, run, Graded
  <2>2. CASE Diagnose(c)
    BY <2>2, <2>0, StageLeft DEF Diagnose, At, run, Graded
  <2>3. CASE CreateRun(c)
    BY <2>3, <2>0, StageLeft DEF CreateRun, At, run, Graded, CallOK
  <2>4. CASE CheckIdempotency(c)
    BY <2>4, <2>0, StageLeft DEF CheckIdempotency, At, run, Graded
  <2>5. CASE CheckStopRule(c)
    <3>1. CASE \E o : Answer(c, o, "none")
      BY <2>5, <3>1, StageLeft DEF CheckStopRule, run
    <3>2. ASSUME NEW path \in {go, {}}, PrevGo(hand[c], path), Continue(c, "gates")
          PROVE  StageOK'
      <4>1. hand[c] \in HandIns /\ Level(hand[c].stage) \in Int /\ go \subseteq Int
        BY <2>5, ConstantsAssumption, LevelType DEF CheckStopRule, At, CallOK, TypeOK
      <4>2. Owed \in Nat /\ Owed' \in Nat /\ earned \in Nat /\ earned' = earned
        BY <2>5, OwedType DEF CheckStopRule, TypeOK
      <4>3. Pending' \subseteq Pending
        BY <2>5, <2>0, <3>2, ContinuePending DEF CheckStopRule, At, Graded
      <4>4. Owed' <= Owed /\ Owed' + earned <= Owed + earned'
        BY <2>5, <4>3, OwedFewer, OwedNoMore DEF CheckStopRule
      <4>5. Level(hand[c].stage) <= 1 \/ Level(hand[c].stage) - 1 \in go
        BY <3>2, <4>1, LevelPasses
      <4>6. Level(hand[c].stage) + Owed <= earned + 1
        BY <4>1, <4>2, <4>5 DEF StageOK, RunStageOK
      <4>7. pc'[c] = "gates" /\ kind'[c] = kind[c] /\ hand'[c] = hand[c]
        BY <3>2 DEF Continue, Goto, call, TypeOK
      <4>8. CallStageOK(c)'
        BY <4>1, <4>2, <4>4, <4>6, <4>7 DEF CallStageOK
      <4> QED  BY <2>5, <4>4, <4>8, StageKept DEF CheckStopRule, run
    <3> QED  BY <2>5, <3>1, <3>2 DEF CheckStopRule
  <2>6. CASE Gates(c)
    <3>1. CASE \E o : Answer(c, o, "none")
      BY <2>6, <3>1, StageLeft DEF Gates, run
    <3>2. CASE Continue(c, "model")
      <4>1. Pending' \subseteq Pending
        BY <2>6, <2>0, <3>2, ContinuePending DEF Gates, At, Graded
      <4>2. Owed' + earned <= Owed + earned'
        BY <2>6, <4>1, OwedNoMore DEF Gates
      <4> QED  BY <2>6, <3>2, <4>2, StageMoved DEF Gates, At, Continue, Goto, call, run, TypeOK
    <3> QED  BY <2>6, <3>1, <3>2 DEF Gates
  <2>7. CASE Judge(c)
    <3>1. pc[c] = "model" /\ verdict[c] # "GO" /\ UNCHANGED <<stage, go>>
      BY <2>7, <2>0 DEF Judge, At, Graded, run
    <3>2. CASE Answer(c, "rejected", "none") /\ UNCHANGED earned
      BY <3>1, <3>2, StageLeft
    <3>3. CASE Continue(c, "outcome") /\ UNCHANGED earned
      <4>1. Pending' \subseteq Pending
        BY <3>1, <3>3, ContinuePending
      <4>2. Owed' + earned <= Owed + earned'
        BY <3>3, <4>1, OwedNoMore
      <4> QED  BY <3>1, <3>3, <4>2, StageMoved DEF Continue, Goto, call, TypeOK
    <3>4. ASSUME NEW v \in Verdict,
                 verdict' = [verdict EXCEPT ![c] = v],
                 earned' = IF v = "GO" THEN earned + 1 ELSE earned,
                 Goto(c, IF v = "GO" THEN "claims" ELSE "outcome"),
                 UNCHANGED <<kind, hand, seen, committed, replies>>
          PROVE  StageOK'
      <4>1. CASE v = "GO"
        <5>1. c \notin Pending /\ Pending' = Pending \cup {c}
          BY <3>1, <3>4, <4>1 DEF Pending, Goto, TypeOK
        <5>2. Owed' = Owed + 1
          BY <5>1, OwedOneMore
        <5>3. Owed' + earned <= Owed + earned'
          BY <3>4, <4>1, <5>2, OwedType DEF TypeOK
        <5> QED  BY <3>1, <3>4, <4>1, <5>3, StageMoved DEF Goto, TypeOK
      <4>2. CASE v # "GO"
        <5>1. Pending' \subseteq Pending
          BY <3>1, <3>4, <4>2 DEF Pending, Goto, TypeOK
        <5>2. Owed' + earned <= Owed + earned'
          BY <3>4, <4>2, <5>1, OwedNoMore
        <5> QED  BY <3>1, <3>4, <4>2, <5>2, StageMoved DEF Goto, TypeOK
      <4> QED  BY <4>1, <4>2
    <3> QED  BY <2>7, <3>2, <3>3, <3>4 DEF Judge
  <2>8. CASE CommitClaims(c)
    <3>1. pc[c] = "claims" /\ UNCHANGED <<stage, go, earned>>
      BY <2>8 DEF CommitClaims, At, run
    <3>2. PICK l \in {"outcome", "read"} : Continue(c, l)
      BY <2>8 DEF CommitClaims
    <3>3. c \in Pending
      BY <3>1 DEF CallOK, Pending
    <3>4. Pending' \subseteq Pending
      BY <3>2, <3>3, ContinuePending
    <3>5. Owed' + earned <= Owed + earned'
      BY <3>1, <3>4, OwedNoMore
    <3> QED  BY <3>1, <3>2, <3>5, StageMoved DEF Continue, Goto, call, TypeOK
  <2>9. CASE CommitOutcome(c)
    <3>1. /\ pc[c] = "outcome" /\ UNCHANGED <<stage, go, earned>>
          /\ Goto(c, "read") /\ UNCHANGED <<kind, hand, verdict, seen>>
      BY <2>9 DEF CommitOutcome, At, run
    <3>2. Pending' \subseteq Pending
      BY <3>1 DEF Pending, Goto, TypeOK
    <3>3. Owed' + earned <= Owed + earned'
      BY <3>1, <3>2, OwedNoMore
    <3> QED  BY <3>1, <3>3, StageMoved DEF Goto, TypeOK
  <2>10. CASE ReadRun(c)
    <3>1. pc[c] = "read" /\ UNCHANGED <<stage, go, earned>>
      BY <2>10 DEF ReadRun, At, run
    <3>2. CASE Done(c)
      BY <3>1, <3>2, StageLeft DEF Done
    <3>3. CASE /\ seen' = [seen EXCEPT ![c] = stage] /\ Goto(c, "put")
               /\ UNCHANGED <<kind, hand, verdict, committed, replies>>
      <4>1. Pending' \subseteq Pending
        BY <3>1, <3>3 DEF Pending, Goto, TypeOK
      <4>2. Owed' <= Owed /\ Owed \in Nat /\ Owed' \in Nat /\ earned \in Nat /\ Level(stage) \in Int
        BY <4>1, OwedFewer, OwedType, LevelRead DEF TypeOK
      <4>3. pc'[c] = "put" /\ seen'[c] = stage /\ kind'[c] = kind[c] /\ hand'[c] = hand[c]
        BY <3>3 DEF Goto, TypeOK
      <4>4. kind[c] = "checkpoint" =>
                Level(hand[c].stage) \in Int /\ Level(hand[c].stage) + Owed <= earned + 1
        BY <3>1, ConstantsAssumption, LevelType DEF CallOK, StageOK, CallStageOK
      <4>5. Level(stage) + Owed <= earned + 1
        BY DEF StageOK, RunStageOK
      <4>6. CallStageOK(c)'
        BY <3>1, <4>2, <4>3, <4>4, <4>5 DEF CallStageOK
      <4>7. Owed' + earned <= Owed + earned'
        BY <3>1, <4>1, OwedNoMore
      <4> QED  BY <3>1, <4>6, <4>7, StageKept
    <3> QED  BY <2>10, <3>2, <3>3 DEF ReadRun
  <2>11. CASE PutRun(c)
    <3>1. pc[c] = "put" /\ UNCHANGED <<go, earned>>
      BY <2>11 DEF PutRun, At
    <3>2. CASE UNCHANGED stage /\ Done(c)
      BY <3>1, <3>2, StageLeft DEF Done
    <3>3. CASE stage' = NextStage(c) /\ Continue(c, "append")
      <4>1. /\ Owed \in Nat /\ Owed' \in Nat /\ earned \in Nat /\ seen[c] \in JsonValue /\ Level(seen[c]) \in Int
            /\ Level(seen[c]) + Owed <= earned + 1 /\ Owed <= earned
            /\ kind[c] = "checkpoint" => /\ hand[c].stage \in StageValue /\ Level(hand[c].stage) \in Int
                                         /\ Level(hand[c].stage) + Owed <= earned + 1
        BY <3>1, OwedType, ConstantsAssumption, LevelType, LevelRead
           DEF TypeOK, CallOK, StageOK, RunStageOK, CallStageOK
      <4>2. Pending' = Pending \ {c}
        BY <3>1, <3>3 DEF Pending, Continue, Goto, call, TypeOK
      <4>3. verdict[c] = "GO" => c \in Pending
        BY <3>1 DEF Pending
      <4>4. Owed' <= Owed /\ (verdict[c] = "GO" => Owed' = Owed - 1)
        BY <4>2, <4>3, OwedFewer, OwedOneLess
      <4>5. verdict[c] = "GO" => stage' = PlusOne(seen[c])
        BY <3>3 DEF NextStage, CallOK
      <4>6. verdict[c] # "GO" => \/ stage' = Number(1)
                                 \/ stage' = seen[c]
                                 \/ kind[c] = "checkpoint" /\ stage' = Stored(hand[c].stage, seen[c])
        BY <3>3 DEF NextStage
      <4>7. Level(stage') \in Int
        BY LevelRead DEF TypeOK
      <4>8. ASSUME verdict[c] = "GO" PROVE Level(stage') + Owed' <= earned + 1
        <5>1. Level(stage') <= Level(seen[c]) + 1
          BY <4>1, <4>5, <4>8, LevelPlusOne
        <5> QED  BY <4>1, <4>4, <4>7, <4>8, <5>1
      <4>9. ASSUME verdict[c] # "GO" PROVE Level(stage') + Owed' <= earned + 1
        <5>1. \/ Level(stage') = 1
              \/ Level(stage') = Level(seen[c])
              \/ kind[c] = "checkpoint" /\ Level(stage') = Level(hand[c].stage)
          BY <4>1, <4>6, <4>9, LevelStored DEF Level, Number
        <5> QED  BY <4>1, <4>4, <5>1
      <4>10. Level(stage') + Owed' <= earned + 1
        BY <4>8, <4>9
      <4>11. \A s \in go : s + Owed' <= earned
        <5>1. \A s \in go : s \in Int /\ s + Owed <= earned
          BY DEF TypeOK, StageOK, RunStageOK
        <5> QED  BY <4>1, <4>4, <5>1
      <4>12. RunStageOK'
        BY <3>1, <4>1, <4>4, <4>10, <4>11 DEF RunStageOK
      <4>13. pc'[c] = "append" /\ verdict'[c] = verdict[c] /\ seen'[c] = seen[c]
        BY <3>3 DEF Continue, Goto, call, TypeOK
      <4>14. CallStageOK(c)'
        BY <3>1, <4>1, <4>4, <4>13 DEF CallStageOK
      <4>15. Owed' + earned <= Owed + earned'
        BY <3>1, <4>2, OwedNoMore
      <4>16. \A d \in Calls \ {c} : CallStageOK(d)'
        <5>1. \A d \in Calls \ {c} : Same(d)
          BY Others
        <5> QED  BY <4>15, <5>1, SameKept
      <4> QED  BY <4>12, <4>14, <4>16 DEF StageOK
    <3> QED  BY <2>11, <3>2, <3>3 DEF PutRun
  <2>12. CASE AppendEvent(c)
    <3>1. pc[c] = "append" /\ UNCHANGED <<stage, earned>> /\ Done(c)
      BY <2>12 DEF AppendEvent, At
    <3>2. CASE UNCHANGED go
      BY <3>1, <3>2, StageLeft DEF Done
    <3>3. CASE verdict[c] = "GO" /\ seen[c].type = "number" /\ go' = go \cup {seen[c].num}
      <4>1. Pending' \subseteq Pending
        BY <3>1, AnswerPending, ContinuePending DEF Done
      <4>2. /\ Owed' <= Owed /\ Owed \in Nat /\ Owed' \in Nat /\ earned \in Nat
            /\ Level(stage) \in Int /\ Level(seen[c]) \in Int /\ Level(seen[c]) + Owed <= earned
            /\ seen[c].num = Level(seen[c])
        BY <3>1, <3>3, <4>1, OwedFewer, OwedType, LevelRead DEF TypeOK, StageOK, CallStageOK, Level
      <4>3. \A s \in go : s \in Int /\ s + Owed <= earned
        BY DEF TypeOK, StageOK, RunStageOK
      <4>4. \A s \in go' : s + Owed' <= earned
        BY <3>3, <4>2, <4>3
      <4>5. RunStageOK'
        <5>1. Owed <= earned /\ Level(stage) + Owed <= earned + 1
          BY DEF StageOK, RunStageOK
        <5>2. Owed' + earned <= Owed + earned
          BY <4>2, NoMore, Zenon
        <5>3. Owed' <= earned /\ Level(stage) + Owed' <= earned + 1
          BY <4>2, <5>1, <5>2, NotOutgrown, Zenon
        <5> QED  BY <3>1, <4>2, <4>4, <5>3 DEF RunStageOK
      <4>6. pc'[c] \in {"door", "idle"}
        BY <3>1 DEF Done, Continue, Answer, Goto, TypeOK
      <4>7. CallStageOK(c)'
        BY <4>6 DEF CallStageOK
      <4>8. \A d \in Calls \ {c} : CallStageOK(d)'
        BY <3>1, <4>1, OwedNoMore, Others, SameKept
      <4> QED  BY <4>5, <4>7, <4>8 DEF StageOK
    <3> QED  BY <2>12, <3>2, <3>3 DEF AppendEvent
  <2>13. CASE Door(c)
    BY <2>13, StageLeft DEF Door, run
  <2>14. CASE Ask(c)
    <3>1. pc[c] = "askModel" /\ UNCHANGED <<stage, go, earned>>
      BY <2>14 DEF Ask, At, run
    <3>2. CASE \E o : Answer(c, o, "none")
      BY <3>1, <3>2, StageLeft
    <3>3. CASE Continue(c, "read")
      <4>1. kind[c] # "checkpoint" /\ verdict[c] # "GO"
        BY <2>0, <3>1 DEF CallOK, Graded
      <4> QED  BY <3>1, <3>3, <4>1, StageLeft
    <3> QED  BY <2>14, <3>2, <3>3 DEF Ask
  <2> QED  BY <2>1, <2>2, <2>3, <2>4, <2>5, <2>6, <2>7, <2>8, <2>9, <2>10, <2>11,
              <2>12, <2>13, <2>14 DEF Step
<1> QED  BY <1>1, <1>2, <1>3, <1>4 DEF Next

(***************************************************************************)
(* A run whose stage is a number is never further than one stage past the  *)
(* GO verdicts given, and no path has a GO beyond them.                    *)
(***************************************************************************)
THEOREM StageEarned == Spec => []AdvanceEarned
<1>1. Init => StageOK
  <2> SUFFICES ASSUME Init PROVE StageOK
    OBVIOUS
  <2>1. Pending = {}
    BY DEF Init, Pending
  <2>2. Owed = 0
    BY <2>1, FS_EmptySet DEF Owed
  <2> QED  BY <2>2 DEF Init, StageOK, RunStageOK, CallStageOK, Level, Null
<1>2. TypeOK /\ TypeOK' /\ CallOK /\ StageOK /\ [Next]_vars => StageOK'
  BY StageStep
<1>3. TypeOK /\ StageOK => AdvanceEarned
  <2> SUFFICES ASSUME TypeOK, StageOK PROVE AdvanceEarned
    OBVIOUS
  <2>1. Owed \in Nat /\ earned \in Nat /\ Level(stage) \in Int /\ go \subseteq Int
    BY OwedType, LevelRead DEF TypeOK
  <2>2. stage.type = "number" => stage.num <= earned + 1
    <3>1. Level(stage) + Owed <= earned + 1
      BY DEF StageOK, RunStageOK
    <3>2. Level(stage) <= earned + 1
      BY <2>1, <3>1
    <3> QED  BY <3>2 DEF Level
  <2>3. ASSUME NEW s \in go  PROVE s <= earned
    <3>1. s \in Int /\ s + Owed <= earned
      BY <2>1 DEF StageOK, RunStageOK
    <3> QED  BY <2>1, <3>1
  <2> QED  BY <2>2, <2>3 DEF AdvanceEarned
<1> QED  BY <1>1, <1>2, <1>3, CallsHold, PTL DEF Spec

-----------------------------------------------------------------------------
(* A replay answers what the index holds, and the index is written once. *)

ReplayOK ==
    \A r \in replies : r[2] = "idempotent" =>
        index[r[1]] # "none" /\ r[3] = index[r[1]]

(* An answer replays only what the index has. *)
LEMMA AnswerReplay ==
    ASSUME TypeOK, ReplayOK, NEW c \in Calls, NEW o, NEW v, Answer(c, o, v), UNCHANGED index,
           o = "idempotent" => v = index[Key(hand[c])] /\ v # "none"
    PROVE  ReplayOK'
BY DEF TypeOK, ReplayOK, Answer

LEMMA ReplayStep == ASSUME TypeOK, ReplayOK, [Next]_vars PROVE ReplayOK'
<1>1. UNCHANGED <<index, replies>> => ReplayOK'
  BY DEF ReplayOK
<1>2. CASE UNCHANGED vars
  BY <1>1, <1>2 DEF vars, store
<1>3. CASE Crash
  BY <1>1, <1>3 DEF Crash, store
<1>4. ASSUME NEW c \in Calls, Arrive(c)  PROVE ReplayOK'
  BY <1>1, <1>4 DEF Arrive, store
<1>5. ASSUME NEW c \in Calls, Step(c)  PROVE ReplayOK'
  <2>1. CASE Route(c) \/ Diagnose(c) \/ CreateRun(c) \/ CheckStopRule(c) \/ Gates(c)
    BY <1>1, <2>1, AnswerReplay
       DEF Route, Diagnose, CreateRun, CheckStopRule, Gates, store, Continue
  <2>2. CASE CheckIdempotency(c)
    BY <1>1, <2>2, AnswerReplay DEF CheckIdempotency, store, Continue
  <2>3. CASE Judge(c) \/ CommitClaims(c) \/ CommitOutcome(c) \/ Ask(c)
    BY <1>1, <2>3, AnswerReplay DEF Judge, CommitClaims, CommitOutcome, Ask, store, Continue
  <2>4. CASE ReadRun(c) \/ PutRun(c) \/ AppendEvent(c)
    BY <1>1, <2>4, AnswerReplay DEF ReadRun, PutRun, AppendEvent, Done, store, Continue
  <2>5. CASE Door(c)
    <3>1. \A k \in Keys : index[k] # "none" => index'[k] = index[k]
      BY <2>5 DEF Door, Recorded, TypeOK
    <3>2. PICK o, v : Answer(c, o, v) /\ o # "idempotent"
      BY <2>5 DEF Door, TypeOK, Verdict
    <3>3. \A r \in replies' : r \in replies \/ r[2] # "idempotent"
      BY <3>2 DEF Answer
    <3>4. \A r \in replies : r[1] \in Keys
      BY DEF TypeOK
    <3> QED  BY <3>1, <3>3, <3>4 DEF ReplayOK
  <2> QED  BY <1>5, <2>1, <2>2, <2>3, <2>4, <2>5 DEF Step
<1> QED  BY <1>2, <1>3, <1>4, <1>5 DEF Next

(***************************************************************************)
(* Two replays of one hand-in carry the same verdict.                      *)
(***************************************************************************)
THEOREM ReplaysAlike == Spec => []ReplaysAgree
<1>1. Init => ReplayOK
  BY DEF Init, ReplayOK
<1>2. TypeOK /\ ReplayOK /\ [Next]_vars => ReplayOK'
  BY ReplayStep
<1>3. ReplayOK => ReplaysAgree
  BY DEF ReplayOK, ReplaysAgree
<1> QED  BY <1>1, <1>2, <1>3, TypeCorrect, PTL DEF Spec

-----------------------------------------------------------------------------
(* A GO past the commit of its claims has them in the graph: a claims step that
   fails skips the outcome, without which the bundle is not committed. *)

CommitOK ==
    /\ ReplayedGoCommitted
    /\ \A c \in Calls : verdict[c] = "GO" /\ (pc[c] = "outcome" \/ committed[c]) => hand[c] \in graph

(* A call that goes on or is answered keeps what is committed. *)
LEMMA CommitKept ==
    ASSUME TypeOK, CallOK, CommitOK, NEW c \in Calls, UNCHANGED store,
           \/ \E o, v : Answer(c, o, v)
           \/ \E l : Continue(c, l) /\ (l = "outcome" => verdict[c] # "GO")
    PROVE  CommitOK'
BY DEF TypeOK, CallOK, CommitOK, ReplayedGoCommitted, Answer, Continue, Goto, call, store

LEMMA CommitStep == ASSUME TypeOK, CallOK, CommitOK, [Next]_vars PROVE CommitOK'
<1>1. CASE UNCHANGED vars
  BY <1>1 DEF CommitOK, ReplayedGoCommitted, vars, store, call
<1>2. CASE Crash
  BY <1>2 DEF Crash, CommitOK, ReplayedGoCommitted, store
<1>3. ASSUME NEW c \in Calls, Arrive(c)  PROVE CommitOK'
  BY <1>3 DEF Arrive, At, Goto, CommitOK, ReplayedGoCommitted, store, TypeOK, CallOK, Graded
<1>4. ASSUME NEW c \in Calls, Step(c)  PROVE CommitOK'
  <2>1. CASE Route(c) \/ Diagnose(c) \/ CreateRun(c) \/ CheckIdempotency(c) \/ CheckStopRule(c)
    BY <2>1, CommitKept DEF Route, Diagnose, CreateRun, CheckIdempotency, CheckStopRule, store
  <2>2. CASE Gates(c) \/ Ask(c)
    BY <2>2, CommitKept DEF Gates, Ask
  <2>3. CASE Judge(c)
    <3>1. pc[c] = "model" /\ verdict[c] # "GO" /\ ~committed[c] /\ UNCHANGED store
      BY <2>3 DEF Judge, At, CallOK, Graded
    <3>2. CASE (\E o : Answer(c, o, "none")) \/ Continue(c, "outcome")
      BY <3>1, <3>2, CommitKept
    <3>3. ASSUME NEW v \in Verdict,
                 verdict' = [verdict EXCEPT ![c] = v],
                 Goto(c, IF v = "GO" THEN "claims" ELSE "outcome"),
                 UNCHANGED <<hand, committed>>
          PROVE  CommitOK'
      BY <3>1, <3>3 DEF Goto, CommitOK, ReplayedGoCommitted, store, TypeOK
    <3> QED  BY <2>3, <3>2, <3>3 DEF Judge
  <2>4. CASE CommitClaims(c)
    <3>1. CASE UNCHANGED graph /\ Continue(c, "read")
      BY <2>4, <3>1, CommitKept DEF CommitClaims, store
    <3>2. CASE graph' = graph \cup {hand[c]} /\ Continue(c, "outcome")
      BY <2>4, <3>2 DEF CommitClaims, CommitOK, ReplayedGoCommitted, Continue, Goto, call, TypeOK
    <3> QED  BY <2>4, <3>1, <3>2 DEF CommitClaims
  <2>5. CASE CommitOutcome(c)
    BY <2>5 DEF CommitOutcome, At, Goto, CommitOK, ReplayedGoCommitted, store, TypeOK
  <2>6. CASE ReadRun(c)
    <3>1. CASE Done(c)
      BY <2>6, <3>1, CommitKept DEF ReadRun, Done
    <3>2. CASE Goto(c, "put") /\ UNCHANGED <<kind, hand, verdict, committed, replies>>
      BY <2>6, <3>2 DEF ReadRun, Goto, CommitOK, ReplayedGoCommitted, store, TypeOK
    <3> QED  BY <2>6, <3>1, <3>2 DEF ReadRun
  <2>7. CASE PutRun(c) \/ AppendEvent(c)
    BY <2>7, CommitKept DEF PutRun, AppendEvent, Done
  <2>8. CASE Door(c)
    <3>1. \A k \in Keys : index'[k] = "GO" => \E h \in graph : Key(h) = k
      BY <2>8 DEF Door, Recordable, Recorded, CommitOK, ReplayedGoCommitted, TypeOK
    <3>2. PICK o, v : Answer(c, o, v)
      BY <2>8 DEF Door
    <3> QED  BY <2>8, <3>1, <3>2 DEF Door, Answer, CommitOK, ReplayedGoCommitted, TypeOK
  <2> QED  BY <1>4, <2>1, <2>2, <2>3, <2>4, <2>5, <2>6, <2>7, <2>8 DEF Step
<1> QED  BY <1>1, <1>2, <1>3, <1>4 DEF Next

(***************************************************************************)
(* A GO that can be replayed is one whose claims are in the graph.         *)
(***************************************************************************)
THEOREM ReplayBacked == Spec => []ReplayedGoCommitted
<1>1. Init => CommitOK
  BY DEF Init, CommitOK, ReplayedGoCommitted
<1>2. TypeOK /\ CallOK /\ CommitOK /\ [Next]_vars => CommitOK'
  BY CommitStep
<1>3. CommitOK => ReplayedGoCommitted
  BY DEF CommitOK
<1> QED  BY <1>1, <1>2, <1>3, CallsHold, PTL DEF Spec
=============================================================================
