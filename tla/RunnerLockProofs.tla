-------------------------- MODULE RunnerLockProofs --------------------------
(***************************************************************************)
(* The busy-lock of the runner, proved for any number of commands and       *)
(* documents: the variables keep their types, and, without doctor --fix     *)
(* and without a statement that throws over documents in flight, there are  *)
(* never two writers, the runner implements SingleRun, a run that was told  *)
(* to stop does not end as completed, and, while the rows of the runs can   *)
(* be written, no more than one of them says running.                       *)
(***************************************************************************)
EXTENDS RunnerLock, TLAPS

-----------------------------------------------------------------------------
(* Type correctness. *)

LEMMA StartType ==
    ASSUME TypeOK, NEW c \in Command, Start(c)
    PROVE  TypeOK'
BY DEF TypeOK, Start, Claim, ClaimRetry, CheckDoctor, Goto, PC, Starting, work, db

LEMMA StartingType ==
    ASSUME TypeOK, NEW c \in Command,
           SelectRetryable(c) \/ SelectThrows(c) \/ InsertRun(c) \/ InsertThrows(c)
    PROVE  TypeOK'
<1>1. CASE SelectRetryable(c)
  BY <1>1 DEF TypeOK, SelectRetryable, Goto, PC, Starting, db
<1>2. CASE SelectThrows(c)
  BY <1>2 DEF TypeOK, SelectThrows, Goto, PC, work, db
<1>3. CASE InsertRun(c)
  BY <1>3 DEF TypeOK, InsertRun, Goto, FirstStage, PC, Body, RowStatus, work
<1>4. CASE InsertThrows(c)
  BY <1>4 DEF TypeOK, InsertThrows, Goto, PC, db
<1> QED  BY <1>1, <1>2, <1>3, <1>4

LEMMA StageType ==
    ASSUME TypeOK, NEW c \in Command,
           ResetOne(c) \/ ListBacklog(c) \/ ClaimDemanded(c) \/ ForceReset(c)
           \/ Produce(c) \/ Discard(c) \/ Advance(c) \/ QueryThrows(c)
    PROVE  TypeOK'
<1>1. CASE ResetOne(c)
  <2>1. CASE queue[c] \subseteq seen[c] /\ Goto(c, "window") /\ UNCHANGED <<status, seen>>
    BY <1>1, <2>1 DEF TypeOK, ResetOne, Goto, PC, Body, flags
  <2>2. ASSUME NEW d \in queue[c] \ seen[c],
               status' = [status EXCEPT ![d] = "downloaded"],
               seen' = [seen EXCEPT ![c] = @ \cup {d}],
               UNCHANGED pc
        PROVE  TypeOK'
    <3>1. d \in Doc
      BY DEF TypeOK
    <3>2. status' \in [Doc -> DocStatus] /\ seen' \in [Command -> SUBSET Doc]
      BY <2>2, <3>1 DEF TypeOK, DocStatus
    <3> QED  BY <1>1, <2>2, <3>2 DEF TypeOK, ResetOne, flags
  <2> QED  BY <1>1, <2>1, <2>2 DEF ResetOne
<1>2. CASE ListBacklog(c)
  BY <1>2 DEF TypeOK, ListBacklog, Goto, PC, Body, flags, db
<1>3. CASE ClaimDemanded(c)
  BY <1>3 DEF TypeOK, ClaimDemanded, Phase, DocStatus, flags, ctl
<1>4. CASE ForceReset(c)
  BY <1>4 DEF TypeOK, ForceReset, Goto, PC, Body, DocStatus, flags
<1>5. CASE Produce(c)
  <2>1. PICK d \in Doc \ seen[c] :
          /\ seen' = [seen EXCEPT ![c] = @ \cup {d}]
          /\ \/ /\ status' = [status EXCEPT ![d] = "downloaded"]
                /\ queue' = [queue EXCEPT ![c] = @ \cup {d}]
             \/ UNCHANGED <<status, queue>>
    BY <1>5 DEF Produce
  <2>2. seen' \in [Command -> SUBSET Doc] /\ queue' \in [Command -> SUBSET Doc]
    BY <2>1 DEF TypeOK
  <2>3. status' \in [Doc -> DocStatus]
    BY <2>1 DEF TypeOK, DocStatus
  <2> QED  BY <1>5, <2>2, <2>3 DEF TypeOK, Produce, flags, ctl
<1>6. CASE Discard(c)
  BY <1>6 DEF TypeOK, Discard, flags, ctl, db
<1>7. CASE Advance(c)
  BY <1>7 DEF TypeOK, Advance, Goto, NextStage, PC, Body, flags, work, db
<1>8. CASE QueryThrows(c)
  BY <1>8 DEF TypeOK, QueryThrows, Goto, PC, Closing, flags, db
<1> QED  BY <1>1, <1>2, <1>3, <1>4, <1>5, <1>6, <1>7, <1>8

LEMMA EndType ==
    ASSUME TypeOK, NEW c \in Command,
           Finish(c) \/ WriteOutcome(c) \/ WriteFailed(c) \/ Release(c)
    PROVE  TypeOK'
<1>1. CASE Finish(c)
  BY <1>1 DEF TypeOK, Finish, Goto, PC, Closing, RowStatus, flags, work, db
<1>2. CASE WriteOutcome(c)
  BY <1>2 DEF TypeOK, WriteOutcome, Goto, PC, Closing, flags, work
<1>3. CASE WriteFailed(c)
  BY <1>3 DEF TypeOK, WriteFailed, Goto, PC, Closing, RowStatus, flags, work
<1>4. CASE Release(c)
  BY <1>4 DEF TypeOK, Release, Goto, PC, RowStatus, db
<1> QED  BY <1>1, <1>2, <1>3, <1>4

LEMMA DocType ==
    ASSUME TypeOK, NEW c \in Command, NEW d \in Doc, Take(c, d) \/ DocStep(c, d)
    PROVE  TypeOK'
<1>1. CASE Take(c, d)
  BY <1>1 DEF TypeOK, Take, Phase, flags, ctl, db
<1>2. CASE StepBegins(c, d)
  <2>1. exec' \in [Command -> [Doc -> Phase]]
    <3>1. PICK p \in Phase : exec' = [exec EXCEPT ![c][d] = p]
      BY <1>2 DEF StepBegins, SetPhase, Phase
    <3> QED  BY <3>1 DEF TypeOK
  <2>2. status' \in [Doc -> DocStatus]
    BY <1>2 DEF TypeOK, StepBegins, DocStatus
  <2> QED  BY <1>2, <2>1, <2>2 DEF TypeOK, StepBegins, flags, ctl
<1>3. CASE StepEnds(c, d)
  BY <1>3 DEF TypeOK, StepEnds, SetPhase, Phase, flags, ctl, db
<1>4. CASE Settle(c, d)
  BY <1>4 DEF TypeOK, Settle, SetPhase, Phase, DocStatus, flags, ctl
<1>5. CASE Suspend(c, d)
  BY <1>5 DEF TypeOK, Suspend, SetPhase, Phase, DocStatus, flags, ctl
<1> QED  BY <1>1, <1>2, <1>3, <1>4, <1>5 DEF DocStep

LEMMA TypeStep ==
    ASSUME TypeOK, [Next]_vars
    PROVE  TypeOK'
<1>1. CASE Stop
  BY <1>1 DEF TypeOK, Stop, work, db
<1>2. CASE Crash
  BY <1>2 DEF TypeOK, Crash, PC, Phase, RowStatus, db
<1>3. CASE Restart
  BY <1>3 DEF TypeOK, Restart, DocStatus, RowStatus, flags, ctl, work
<1>4. CASE UNCHANGED vars
  BY <1>4 DEF TypeOK, vars, flags, ctl, work, db
<1> QED  BY <1>1, <1>2, <1>3, <1>4, StartType, StartingType, StageType, EndType, DocType
         DEF Next, RunStep

LEMMA InitType == Init => TypeOK
<1> SUFFICES ASSUME Init PROVE TypeOK
  OBVIOUS
<1>1. status \in [Doc -> DocStatus] /\ wanted \in SUBSET Doc
  BY DEF Init, DocStatus
<1>2. exec \in [Command -> [Doc -> Phase]] /\ pc \in [Command -> PC]
  BY DEF Init, Phase, PC
<1> QED  BY <1>1, <1>2 DEF Init, TypeOK, RowStatus

(* Every variable of the runner always has its type. *)
THEOREM TypeCorrect == Spec => []TypeOK
BY InitType, TypeStep, PTL DEF Spec

-----------------------------------------------------------------------------
(* The invariant behind the lock: one command is active, the flags say so,  *)
(* documents wait or are in flight only in the body of the run, and none is *)
(* handed out while it is in flight.                                        *)

Assumed == Doctor = {} /\ "amid" \notin Faults

Alone == \A c, e \in Command : Active(c) /\ Active(e) => c = e

Held(c) == /\ pc[c] \in Starting => starting
           /\ pc[c] \in Body \cup Closing => current = c
           /\ pc[c] \in {"select", "reset"} => c \in Retry

AtRest(c) == /\ pc[c] \notin Body => Quiet(c)
             /\ queue[c] = {} \/ pc[c] \in {"drain", "drainForced", "window"}
                \/ (c \in Retry /\ pc[c] \in {"insert", "reset"})

HandedOut(c, d) ==
    /\ d \in queue[c] => exec[c][d] = "none"
    /\ pc[c] \in {"backlog", "reset", "force"} => exec[c][d] = "none"
    /\ pc[c] = "demand" /\ exec[c][d] # "none" => status[d] # "ready"
    /\ pc[c] = "window" /\ c \in Ingest /\ (exec[c][d] # "none" \/ d \in queue[c])
         => d \in seen[c]

LockInv ==
    /\ TypeOK
    /\ Alone
    /\ \A c \in Command : Held(c) /\ AtRest(c)
    /\ \A c \in Command, d \in Doc : HandedOut(c, d)

LEMMA LockInit == Init => LockInv
<1> SUFFICES ASSUME Init PROVE LockInv
  OBVIOUS
<1>1. TypeOK
  BY InitType
<1>2. Alone /\ \A c \in Command : Held(c) /\ AtRest(c)
  BY DEF Init, Alone, Held, AtRest, Active, Quiet, InFlight, Starting, Body, Closing
<1>3. \A c \in Command, d \in Doc : HandedOut(c, d)
  BY DEF Init, HandedOut
<1> QED  BY <1>1, <1>2, <1>3 DEF LockInv

(* Whoever starts finds nobody active. *)
LEMMA Free ==
    ASSUME LockInv, ~isRunning, NEW e \in Command
    PROVE  ~Active(e)
BY NoneAssumption DEF LockInv, TypeOK, Held, isRunning, Active, PC

LEMMA StartInv ==
    ASSUME LockInv, Assumed, NEW c \in Command, Start(c)
    PROVE  LockInv'
<1>1. TypeOK'
  BY StartType DEF LockInv
<1>2. \A e \in Command : ~Active(e)
  BY Free DEF Start, Claim, ClaimRetry, CheckDoctor
<1>3. /\ pc' = [pc EXCEPT ![c] = IF c \in Retry THEN "select" ELSE "insert"]
      /\ starting' = TRUE
      /\ UNCHANGED <<work, status>>
  BY KindsAssumption DEF Start, Claim, ClaimRetry, CheckDoctor, Goto, Assumed, db
<1>4. Alone' /\ \A e \in Command : Held(e)'
  BY <1>2, <1>3 DEF LockInv, TypeOK, Alone, Held, Active, Starting, Body, Closing
<1>5. \A e \in Command : AtRest(e)' /\ \A d \in Doc : HandedOut(e, d)'
  <2> TAKE e \in Command
  <2>1. pc'[e] \in {"new", "done", "select", "insert"}
    BY <1>2, <1>3 DEF LockInv, TypeOK, Active
  <2>2. queue'[e] = {} /\ \A d \in Doc : exec'[e][d] = "none"
    BY <1>2, <1>3 DEF LockInv, AtRest, Quiet, InFlight, Active, Body, work
  <2> QED  BY <2>1, <2>2 DEF AtRest, HandedOut, Quiet, InFlight, Body
<1> QED  BY <1>1, <1>4, <1>5 DEF LockInv

(* A step of the active command need only keep what is said of itself. *)
Others(c) == \A e \in Command \ {c} :
    pc'[e] = pc[e] /\ queue'[e] = queue[e] /\ exec'[e] = exec[e]

Own(c) == Held(c) /\ AtRest(c) /\ \A d \in Doc : HandedOut(c, d)

(* A step of the one active command keeps the lock when it keeps its own part. *)
LEMMA OwnStep ==
    ASSUME LockInv, TypeOK', NEW c \in Command, Active(c), Others(c), Own(c)'
    PROVE  LockInv'
<1>1. \A e \in Command \ {c} : pc[e] \in {"new", "done"}
  BY DEF LockInv, Alone, Active
<1>2. Alone'
  BY <1>1 DEF Alone, Active, Others
<1>3. ASSUME NEW e \in Command \ {c}
      PROVE  /\ Held(e)' /\ AtRest(e)'
             /\ \A d \in Doc : HandedOut(e, d)'
  <2>1. pc'[e] \in {"new", "done"}
    BY <1>1 DEF Others
  <2>2. queue'[e] = {} /\ \A d \in Doc : exec'[e][d] = "none"
    BY <1>1 DEF LockInv, AtRest, Quiet, InFlight, Body, Others
  <2> QED  BY <2>1, <2>2 DEF Held, AtRest, HandedOut, Quiet, InFlight, Starting, Body, Closing
<1> QED  BY <1>2, <1>3 DEF LockInv, Own

LEMMA StartingInv ==
    ASSUME LockInv, Assumed, NEW c \in Command,
           SelectRetryable(c) \/ SelectThrows(c) \/ InsertRun(c) \/ InsertThrows(c)
    PROVE  LockInv'
<1>1. TypeOK'
  BY StartingType DEF LockInv
<1>2. Active(c)
  BY DEF Active, SelectRetryable, SelectThrows, InsertRun, InsertThrows
<1>3. \A d \in Doc : exec[c][d] = "none"
  BY DEF LockInv, AtRest, Quiet, InFlight, Body,
         SelectRetryable, SelectThrows, InsertRun, InsertThrows
<1>4. Others(c) /\ exec' = exec
  BY DEF LockInv, TypeOK, Others, Goto, work,
         SelectRetryable, SelectThrows, InsertRun, InsertThrows
<1>5. CASE SelectRetryable(c)
  <2>1. pc'[c] = "insert" /\ starting' = starting /\ pc[c] = "select"
    BY <1>5 DEF LockInv, TypeOK, SelectRetryable, Goto
  <2>2. Own(c)'
    BY <1>3, <1>4, <2>1
       DEF LockInv, Own, Held, AtRest, HandedOut, Quiet, InFlight, Starting, Body, Closing
  <2> QED  BY <1>1, <1>2, <1>4, <2>2, OwnStep
<1>6. CASE SelectThrows(c) \/ InsertThrows(c)
  <2>1. pc'[c] = "done" /\ queue'[c] = {}
    BY <1>6 DEF LockInv, TypeOK, AtRest, SelectThrows, InsertThrows, Goto, Body, work
  <2>2. Own(c)'
    BY <1>3, <1>4, <2>1
       DEF Own, Held, AtRest, HandedOut, Quiet, InFlight, Starting, Body, Closing
  <2> QED  BY <1>1, <1>2, <1>4, <2>2, OwnStep
<1>7. CASE InsertRun(c)
  <2>1. pc'[c] = FirstStage(c) /\ current' = c /\ UNCHANGED queue
    BY <1>7 DEF LockInv, TypeOK, InsertRun, Goto, work
  <2>2. /\ FirstStage(c) \in {"backlog", "reset", "days", "fix"}
        /\ FirstStage(c) = "reset" <=> c \in Retry
        /\ pc[c] = "insert"
    BY <1>7, KindsAssumption DEF FirstStage, InsertRun
  <2>3. Own(c)'
    BY <1>3, <1>4, <2>1, <2>2
       DEF LockInv, Own, Held, AtRest, HandedOut, Quiet, InFlight, Starting, Body, Closing
  <2> QED  BY <1>1, <1>2, <1>4, <2>3, OwnStep
<1> QED  BY <1>5, <1>6, <1>7

LEMMA StageInv ==
    ASSUME LockInv, Assumed, NEW c \in Command,
           ResetOne(c) \/ ListBacklog(c) \/ ClaimDemanded(c) \/ ForceReset(c)
           \/ Produce(c) \/ Discard(c) \/ Advance(c) \/ QueryThrows(c)
    PROVE  LockInv'
<1> USE DEF Own, Held, AtRest, HandedOut, Quiet, InFlight, Starting, Body, Closing
<1>1. TypeOK'
  BY StageType DEF LockInv
<1>2. CASE ResetOne(c)
  <2>1. Active(c) /\ Others(c) /\ UNCHANGED <<current, queue, exec>>
    BY <1>2 DEF LockInv, TypeOK, ResetOne, Active, Others, Goto, flags
  <2>2. pc'[c] \in {"reset", "window"} /\ pc[c] = "reset" /\ c \in Retry
    BY <1>2 DEF LockInv, TypeOK, ResetOne, Goto
  <2>3. Own(c)'
    BY <2>1, <2>2, KindsAssumption DEF LockInv
  <2> QED  BY <1>1, <2>1, <2>3, OwnStep
<1>3. CASE ListBacklog(c) \/ ForceReset(c)
  <2>1. Active(c) /\ Others(c) /\ UNCHANGED <<current, exec>>
    BY <1>3 DEF LockInv, TypeOK, ListBacklog, ForceReset, Active, Others, Goto, flags
  <2>2. pc'[c] \in {"drain", "drainForced"} /\ pc[c] \in {"backlog", "force"}
    BY <1>3 DEF LockInv, TypeOK, ListBacklog, ForceReset, Goto
  <2>3. Own(c)'
    BY <2>1, <2>2 DEF LockInv
  <2> QED  BY <1>1, <2>1, <2>3, OwnStep
<1>4. CASE ClaimDemanded(c)
  <2>1. PICK d \in Doc : /\ status' = [status EXCEPT ![d] = "downloaded"]
                         /\ exec' = [exec EXCEPT ![c][d] = "entry"]
    BY <1>4 DEF LockInv, TypeOK, ClaimDemanded
  <2>2. pc[c] = "demand" /\ UNCHANGED <<pc, current, queue, seen>>
    BY <1>4 DEF ClaimDemanded, flags, ctl
  <2>3. Active(c) /\ Others(c)
    BY <2>1, <2>2 DEF LockInv, TypeOK, Active, Others
  <2>4. queue[c] = {}
    BY <2>2 DEF LockInv
  <2>5. Own(c)'
    BY <2>1, <2>2, <2>4 DEF LockInv, TypeOK
  <2> QED  BY <1>1, <2>3, <2>5, OwnStep
<1>5. CASE Produce(c)
  <2>1. PICK d \in Doc \ seen[c] :
          /\ seen' = [seen EXCEPT ![c] = @ \cup {d}]
          /\ queue' = [queue EXCEPT ![c] = @ \cup {d}] \/ UNCHANGED queue
    BY <1>5 DEF Produce
  <2>2. pc[c] = "window" /\ c \in Ingest /\ UNCHANGED <<pc, current, exec>>
    BY <1>5 DEF Produce, flags, ctl
  <2>3. Active(c) /\ Others(c)
    BY <2>1, <2>2 DEF LockInv, TypeOK, Active, Others
  <2>4. /\ seen'[c] = seen[c] \cup {d}
        /\ queue'[c] \subseteq queue[c] \cup {d}
    BY <2>1 DEF LockInv, TypeOK
  <2>5. exec[c][d] = "none"
    BY <2>1, <2>2 DEF LockInv
  <2>6. Own(c)'
    BY <2>2, <2>4, <2>5 DEF LockInv
  <2> QED  BY <1>1, <2>3, <2>6, OwnStep
<1>6. CASE Discard(c)
  <2>1. /\ queue' = [queue EXCEPT ![c] = {}]
        /\ UNCHANGED <<pc, starting, current, status, seen, exec>>
    BY <1>6 DEF Discard, flags, ctl, db
  <2>2. Active(c) /\ Others(c)
    BY <1>6, <2>1 DEF LockInv, TypeOK, Discard, Active, Others
  <2>3. Own(c)'
    BY <2>1 DEF LockInv, TypeOK
  <2> QED  BY <1>1, <2>2, <2>3, OwnStep
<1>7. CASE Advance(c)
  <2>1. /\ pc[c] \in Body /\ Quiet(c) /\ queue[c] = {}
        /\ pc'[c] \in {"demand", "force", "window"}
        /\ UNCHANGED <<current, status, work>>
    BY <1>7 DEF LockInv, TypeOK, Advance, NextStage, Goto, flags, db
  <2>2. Active(c) /\ Others(c)
    BY <1>7, <2>1 DEF LockInv, TypeOK, Advance, Active, Others, Goto, work
  <2>3. Own(c)'
    BY <2>1 DEF LockInv, work
  <2> QED  BY <1>1, <2>2, <2>3, OwnStep
<1>8. CASE QueryThrows(c)
  <2>1. /\ pc[c] \in Body /\ pc'[c] = "failing" /\ Quiet(c) /\ queue'[c] = {}
        /\ UNCHANGED <<current, exec>>
    <3>1. pc[c] \in Body \ {"days"} /\ Quiet(c) /\ (pc[c] # "reset" => queue[c] = {})
      BY <1>8 DEF QueryThrows, Assumed
    <3>2. pc'[c] = "failing" /\ queue'[c] = {} /\ UNCHANGED <<current, exec>>
      BY <1>8, <3>1 DEF LockInv, TypeOK, QueryThrows, Goto, flags
    <3> QED  BY <3>1, <3>2
  <2>2. Active(c) /\ Others(c)
    BY <1>8, <2>1 DEF LockInv, TypeOK, QueryThrows, Active, Others, Goto
  <2>3. Own(c)'
    BY <2>1 DEF LockInv
  <2> QED  BY <1>1, <2>2, <2>3, OwnStep
<1> QED  BY <1>2, <1>3, <1>4, <1>5, <1>6, <1>7, <1>8

LEMMA EndInv ==
    ASSUME LockInv, Assumed, NEW c \in Command,
           Finish(c) \/ WriteOutcome(c) \/ WriteFailed(c) \/ Release(c)
    PROVE  LockInv'
<1> USE DEF Own, Held, AtRest, HandedOut, Quiet, InFlight, Starting, Body, Closing
<1>1. TypeOK'
  BY EndType DEF LockInv
<1>2. Quiet(c) /\ queue[c] = {} /\ UNCHANGED <<queue, exec>>
  BY DEF LockInv, Finish, WriteOutcome, WriteFailed, Release, work
<1>3. Active(c) /\ Others(c)
  BY <1>2 DEF LockInv, TypeOK, Finish, WriteOutcome, WriteFailed, Release, Active, Others, Goto
<1>4. pc'[c] = "done" \/ (pc'[c] \in Closing /\ current' = c)
  BY DEF LockInv, TypeOK, Finish, WriteOutcome, WriteFailed, Release, Goto, flags
<1>5. Own(c)'
  BY <1>2, <1>4 DEF LockInv
<1> QED  BY <1>1, <1>3, <1>5, OwnStep

LEMMA DocInv ==
    ASSUME LockInv, Assumed, NEW c \in Command, NEW d \in Doc, Take(c, d) \/ DocStep(c, d)
    PROVE  LockInv'
<1> USE DEF Own, Held, AtRest, HandedOut, Quiet, InFlight, Starting, Body, Closing
<1>1. TypeOK'
  BY DocType DEF LockInv
<1>2. UNCHANGED <<pc, starting, current, seen>>
  BY DEF Take, DocStep, StepBegins, StepEnds, Settle, Suspend, flags, ctl
<1>3. CASE Take(c, d)
  <2>1. /\ pc[c] \in Body \ {"reset", "demand"} /\ exec[c][d] = "none"
        /\ d \in queue[c]
        /\ queue' = [queue EXCEPT ![c] = @ \ {d}]
        /\ exec' = [exec EXCEPT ![c][d] = "entry"]
        /\ UNCHANGED status
    BY <1>3 DEF LockInv, Take, db
  <2>2. Active(c) /\ Others(c)
    BY <1>2, <2>1 DEF LockInv, TypeOK, Active, Others
  <2>3. pc[c] \notin {"backlog", "force"}
    BY <2>1 DEF LockInv
  <2>4. Own(c)'
    BY <1>2, <2>1, <2>3 DEF LockInv, TypeOK
  <2> QED  BY <1>1, <2>2, <2>4, OwnStep
<1>4. CASE DocStep(c, d)
  <2>1. PICK p \in Phase : exec' = [exec EXCEPT ![c][d] = p]
    BY <1>4 DEF DocStep, StepBegins, StepEnds, Settle, Suspend, SetPhase, Phase
  <2>2. /\ exec[c][d] # "none" /\ UNCHANGED queue
        /\ p = "none" \/ status' = [status EXCEPT ![d] = "inflight"] \/ UNCHANGED status
        /\ \A f \in Doc \ {d} : status'[f] = status[f]
    BY <1>4, <2>1
       DEF LockInv, TypeOK, DocStep, StepBegins, StepEnds, Settle, Suspend, SetPhase, db
  <2>3. pc[c] \in Body
    BY <2>2 DEF LockInv
  <2>4. Active(c) /\ Others(c)
    BY <1>2, <2>1, <2>2, <2>3 DEF LockInv, TypeOK, Active, Others
  <2>5. \A f \in Doc \ {d} : exec'[c][f] = exec[c][f]
    BY <2>1 DEF LockInv, TypeOK
  <2>6. exec'[c][d] = p
    BY <2>1 DEF LockInv, TypeOK
  <2>7. Own(c)'
    <3>1. Held(c)' /\ AtRest(c)'
      BY <1>2, <2>2, <2>3 DEF LockInv
    <3>2. HandedOut(c, d)'
      BY <1>2, <2>2, <2>6 DEF LockInv, TypeOK
    <3>3. \A f \in Doc \ {d} : HandedOut(c, f)'
      BY <1>2, <2>2, <2>5 DEF LockInv
    <3> QED  BY <3>1, <3>2, <3>3
  <2> QED  BY <1>1, <2>4, <2>7, OwnStep
<1> QED  BY <1>3, <1>4

LEMMA AroundInv ==
    ASSUME LockInv, Stop \/ Crash \/ Restart \/ UNCHANGED vars
    PROVE  LockInv'
<1>1. TypeOK'
  BY TypeStep DEF LockInv, Next
<1>2. CASE Stop \/ UNCHANGED vars
  <2>1. UNCHANGED <<starting, current, pc, queue, seen, exec, status>>
    BY <1>2 DEF Stop, vars, flags, ctl, work, db
  <2> QED  BY <1>1, <2>1 DEF LockInv, Alone, Held, AtRest, HandedOut, Active, Quiet, InFlight
<1>3. CASE Crash
  <2>1. \A c \in Command : /\ pc'[c] \in {"new", "done"} /\ queue'[c] = {}
                            /\ \A d \in Doc : exec'[c][d] = "none"
    BY <1>3 DEF Crash
  <2>2. Alone'
    BY <2>1 DEF Alone, Active
  <2>3. ASSUME NEW c \in Command
        PROVE  Held(c)' /\ AtRest(c)' /\ \A d \in Doc : HandedOut(c, d)'
    BY <2>1 DEF Held, AtRest, HandedOut, Quiet, InFlight, Starting, Body, Closing
  <2> QED  BY <1>1, <2>2, <2>3 DEF LockInv
<1>4. CASE Restart
  <2>1. UNCHANGED <<starting, current, pc, queue, seen, exec>>
    BY <1>4 DEF Restart, flags, ctl, work
  <2>2. \A d \in Doc : status'[d] = "ready" => status[d] = "ready"
    BY <1>4 DEF Restart
  <2> QED
    BY <1>1, <2>1, <2>2 DEF LockInv, Alone, Held, AtRest, HandedOut, Active, Quiet, InFlight
<1> QED  BY <1>2, <1>3, <1>4

LEMMA LockStep ==
    ASSUME LockInv, Assumed, [Next]_vars
    PROVE  LockInv'
BY StartInv, StartingInv, StageInv, EndInv, DocInv, AroundInv DEF Next, RunStep

(* Without doctor --fix, and when no statement throws over documents in
   flight, two commands never both write. *)
THEOREM NeverTwo ==
    ASSUME Assumed
    PROVE  Spec => []NeverTwoWriters
<1>1. LockInv => NeverTwoWriters
  BY DEF LockInv, Alone, AtRest, Active, NeverTwoWriters, Writing, Body
<1> QED  BY <1>1, LockInit, LockStep, PTL DEF Spec

-----------------------------------------------------------------------------
(* The row of a run and what a stop has told it.  The row is 'running' from  *)
(* its INSERT to its last UPDATE; a run that was told to stop is the latest  *)
(* one, so the object its documents look at is the one that was set.         *)

(* Where a run may have a row that says 'running'. *)
RowOpen == Body \cup {"final", "failing"}

RowInv ==
    /\ ~up => \A c \in Command : ~Active(c)
    /\ up => \A c \in Command : row[c] = "running" => pc[c] \in RowOpen
    /\ \A c \in Command : pc[c] = "final" => outcome[c] # "running"

ToldInv ==
    /\ \A c \in Command : pc[c] \in {"insert"} \cup Body \cup Closing => latest = c
    /\ \A c \in told :
         /\ pc[c] \notin {"new", "select"} /\ signal[c]
         /\ pc[c] \in {"insert"} \cup Body => stopRequested
         /\ pc[c] = "final" => outcome[c] # "completed"

(* What a step of a run changes of all this. *)
LEMMA RowStart ==
    ASSUME LockInv, RowInv, NEW c \in Command, Start(c)
    PROVE  RowInv'
<1>1. up /\ up' = up /\ UNCHANGED <<row, outcome>>
  BY DEF Start, Claim, ClaimRetry, CheckDoctor, db
<1>2. pc[c] = "new" /\ \E l \in {"insert", "select"} : pc' = [pc EXCEPT ![c] = l]
  BY DEF Start, Claim, ClaimRetry, CheckDoctor, Goto
<1>3. QED
  BY <1>1, <1>2 DEF LockInv, TypeOK, RowInv, RowOpen, Body

(* A step of a run keeps the rows of the runs apart. *)
LEMMA RowRun ==
    ASSUME LockInv, RowInv, "write" \notin Faults, NEW c \in Command, RunStep(c)
    PROVE  RowInv'
<1>1. pc \in [Command -> PC] /\ row \in [Command -> RowStatus] /\ outcome \in [Command -> RowStatus]
  BY DEF LockInv, TypeOK
<1>2. Active(c) /\ up /\ UNCHANGED up
  <2>1. Active(c)
    BY DEF RunStep, SelectRetryable, SelectThrows, InsertRun, InsertThrows, ResetOne, ListBacklog,
           ClaimDemanded, ForceReset, Produce, Discard, Advance, QueryThrows, Finish,
           WriteOutcome, WriteFailed, Release, Active, NextStage, LockInv, AtRest, Body
  <2>2. UNCHANGED up
    BY DEF RunStep, SelectRetryable, SelectThrows, InsertRun, InsertThrows, ResetOne, ListBacklog,
           ClaimDemanded, ForceReset, Produce, Discard, Advance, QueryThrows, Finish,
           WriteOutcome, WriteFailed, Release
  <2>3. QED
    BY <2>1, <2>2 DEF RowInv
<1>3. \A e \in Command \ {c} : pc'[e] = pc[e] /\ row'[e] = row[e] /\ outcome'[e] = outcome[e]
  BY <1>1 DEF RunStep, SelectRetryable, SelectThrows, InsertRun, InsertThrows, ResetOne, ListBacklog,
         ClaimDemanded, ForceReset, Produce, Discard, Advance, QueryThrows, Finish,
         WriteOutcome, WriteFailed, Release, Goto, ctl, db
<1>4. /\ row'[c] = "running" => pc'[c] \in RowOpen
      /\ pc'[c] = "final" => outcome'[c] # "running"
  <2>0. /\ row[c] = "running" => pc[c] \in RowOpen
        /\ pc[c] = "final" => outcome[c] # "running"
    BY <1>2 DEF RowInv
  <2> USE DEF RowOpen, Body, Goto
  <2>1. CASE SelectRetryable(c) \/ SelectThrows(c) \/ InsertThrows(c)
    BY <1>1, <2>0, <2>1 DEF SelectRetryable, SelectThrows, InsertThrows, db
  <2>2. CASE InsertRun(c)
    BY <1>1, <2>0, <2>2 DEF InsertRun, FirstStage
  <2>3. CASE ResetOne(c) \/ ListBacklog(c) \/ ForceReset(c) \/ Advance(c)
    BY <1>1, <2>0, <2>3 DEF ResetOne, ListBacklog, ForceReset, Advance, NextStage, db
  <2>4. CASE ClaimDemanded(c) \/ Produce(c) \/ Discard(c)
    BY <1>1, <2>0, <2>4 DEF ClaimDemanded, Produce, Discard, ctl, db
  <2>5. CASE QueryThrows(c)
    BY <1>1, <2>0, <2>5 DEF QueryThrows, db
  <2>6. CASE Finish(c)
    BY <1>1, <2>0, <2>6 DEF Finish, db
  <2>7. CASE WriteOutcome(c)
    BY <1>1, <2>0, <2>7 DEF WriteOutcome
  <2>8. CASE WriteFailed(c)
    BY <1>1, <2>0, <2>8 DEF WriteFailed
  <2>9. CASE Release(c)
    BY <1>1, <2>0, <2>9 DEF Release, db
  <2>10. QED
    BY <2>1, <2>2, <2>3, <2>4, <2>5, <2>6, <2>7, <2>8, <2>9 DEF RunStep
<1>5. QED
  BY <1>2, <1>3, <1>4 DEF RowInv

(* Every step does. *)
LEMMA RowStep ==
    ASSUME LockInv, RowInv, "write" \notin Faults, [Next]_vars
    PROVE  RowInv'
<1>1. ASSUME NEW c \in Command, NEW d \in Doc, Take(c, d) \/ DocStep(c, d)
      PROVE  RowInv'
  <2>1. UNCHANGED <<pc, outcome, row, up>>
    BY <1>1 DEF Take, DocStep, StepBegins, StepEnds, Settle, Suspend, ctl, db
  <2>2. QED
    BY <2>1 DEF RowInv, Active
<1>2. CASE Stop \/ UNCHANGED vars
  <2>1. UNCHANGED <<pc, outcome, row, up>>
    BY <1>2 DEF Stop, vars, ctl, db
  <2>2. QED
    BY <2>1 DEF RowInv, Active
<1>3. CASE Crash
  BY <1>3 DEF Crash, RowInv, Active
<1>4. CASE Restart
  BY <1>4 DEF Restart, RowInv, ctl
<1>5. QED
  BY <1>1, <1>2, <1>3, <1>4, RowStart, RowRun DEF Next

(* Under the same assumptions, and when the last UPDATE of a run is made, at
   most one row of a live runner says 'running': none is left behind by a run
   that has ended, by one that failed, or by a crash. *)
THEOREM OneRow ==
    ASSUME Assumed, "write" \notin Faults
    PROVE  Spec => []OneRunningRow
<1>1. Init => RowInv
  BY DEF Init, RowInv, RowStatus
<1>2. LockInv /\ RowInv => OneRunningRow
  BY DEF LockInv, Alone, RowInv, RowOpen, Active, Body, OneRunningRow
<1>3. QED
  BY <1>1, <1>2, LockInit, LockStep, RowStep, PTL DEF Spec

(* A command that starts has told nobody to stop. *)
LEMMA ToldStart ==
    ASSUME LockInv, ToldInv, Assumed, NEW c \in Command, Start(c)
    PROVE  ToldInv'
<1>1. \A e \in Command : ~Active(e)
  BY Free DEF Start, Claim, ClaimRetry, CheckDoctor
<1>2. pc[c] = "new" /\ UNCHANGED <<signal, told, outcome>>
  BY DEF Start, Claim, ClaimRetry, CheckDoctor
<1>3. \/ pc' = [pc EXCEPT ![c] = "insert"] /\ latest' = c
      \/ pc' = [pc EXCEPT ![c] = "select"]
  BY DEF Start, Claim, ClaimRetry, CheckDoctor, Goto
<1>4. c \notin told /\ told \subseteq Command
  BY <1>2 DEF ToldInv, LockInv, TypeOK
<1>5. \A e \in Command \ {c} : pc'[e] \in {"new", "done"} /\ pc'[e] = pc[e]
  BY <1>1, <1>3 DEF LockInv, TypeOK, Active
<1>6. QED
  BY <1>2, <1>3, <1>4, <1>5 DEF LockInv, TypeOK, ToldInv, Body, Closing

(* A run that was told to stop does not forget it. *)
LEMMA ToldRun ==
    ASSUME LockInv, ToldInv, Assumed, NEW c \in Command, RunStep(c)
    PROVE  ToldInv'
<1>1. /\ pc \in [Command -> PC] /\ outcome \in [Command -> RowStatus] /\ told \subseteq Command
      /\ signal \in [Command -> BOOLEAN]
  BY DEF LockInv, TypeOK
<1>2. Active(c)
  BY DEF RunStep, SelectRetryable, SelectThrows, InsertRun, InsertThrows, ResetOne, ListBacklog,
         ClaimDemanded, ForceReset, Produce, Discard, Advance, QueryThrows, Finish,
         WriteOutcome, WriteFailed, Release, Active, NextStage, LockInv, AtRest, Body
<1>3. UNCHANGED <<told, signal>>
  BY DEF RunStep, SelectRetryable, SelectThrows, InsertRun, InsertThrows, ResetOne, ListBacklog,
         ClaimDemanded, ForceReset, Produce, Discard, Advance, QueryThrows, Finish,
         WriteOutcome, WriteFailed, Release, ctl
<1>4. \A e \in Command \ {c} :
        pc'[e] = pc[e] /\ outcome'[e] = outcome[e] /\ pc[e] \in {"new", "done"}
  <2>1. \A e \in Command \ {c} : pc'[e] = pc[e] /\ outcome'[e] = outcome[e]
    BY <1>1 DEF RunStep, SelectRetryable, SelectThrows, InsertRun, InsertThrows, ResetOne, ListBacklog,
           ClaimDemanded, ForceReset, Produce, Discard, Advance, QueryThrows, Finish,
           WriteOutcome, WriteFailed, Release, Goto, ctl
  <2>2. QED
    BY <1>2, <2>1 DEF LockInv, Alone, Active
<1>5. pc'[c] \in {"insert"} \cup Body \cup Closing => latest' = c
  <2>0. pc[c] \in {"insert"} \cup Body \cup Closing => latest = c
    BY DEF ToldInv
  <2>1. CASE SelectRetryable(c)
    BY <2>1 DEF SelectRetryable
  <2>2. CASE SelectThrows(c) \/ InsertThrows(c) \/ Release(c)
    BY <1>1, <2>2 DEF SelectThrows, InsertThrows, Release, Goto, Body, Closing
  <2>3. CASE ~(SelectRetryable(c) \/ SelectThrows(c) \/ InsertThrows(c) \/ Release(c))
    <3>1. UNCHANGED latest /\ pc[c] \in {"insert"} \cup Body \cup Closing
      BY <1>2, <2>3 DEF RunStep, InsertRun, ResetOne, ListBacklog,
           ClaimDemanded, ForceReset, Produce, Discard, Advance, QueryThrows, Finish,
           WriteOutcome, WriteFailed, Active, NextStage, LockInv, AtRest, Body, Closing, flags
    <3>2. QED
      BY <2>0, <3>1
  <2>4. QED
    BY <2>1, <2>2, <2>3
<1>6. ASSUME c \in told
      PROVE  /\ pc'[c] \notin {"new", "select"}
             /\ pc'[c] \in {"insert"} \cup Body => stopRequested'
             /\ pc'[c] = "final" => outcome'[c] # "completed"
  <2>0. /\ pc[c] \notin {"new", "select"}
        /\ pc[c] \in {"insert"} \cup Body => stopRequested
        /\ pc[c] = "final" => outcome[c] # "completed"
    BY <1>6 DEF ToldInv
  <2> USE DEF Body, Goto
  <2>1. CASE InsertThrows(c) \/ Release(c) \/ QueryThrows(c)
    BY <1>1, <2>1 DEF InsertThrows, Release, QueryThrows
  <2>2. CASE InsertRun(c)
    BY <1>1, <2>0, <2>2 DEF InsertRun, FirstStage
  <2>3. CASE ResetOne(c) \/ ListBacklog(c) \/ ForceReset(c) \/ Advance(c)
    BY <1>1, <2>0, <2>3 DEF ResetOne, ListBacklog, ForceReset, Advance, NextStage, flags
  <2>4. CASE ClaimDemanded(c) \/ Produce(c) \/ Discard(c)
    BY <1>1, <2>0, <2>4 DEF ClaimDemanded, Produce, Discard, ctl, flags
  <2>5. CASE Finish(c)
    BY <1>1, <2>0, <2>5 DEF Finish
  <2>6. CASE WriteOutcome(c) \/ WriteFailed(c)
    BY <1>1, <2>0, <2>6 DEF WriteOutcome, WriteFailed
  <2>7. QED
    BY <2>0, <2>1, <2>2, <2>3, <2>4, <2>5, <2>6 DEF RunStep, SelectRetryable, SelectThrows
<1>7. QED
  BY <1>1, <1>3, <1>4, <1>5, <1>6 DEF ToldInv, Body, Closing

(* Nor does any other step make it. *)
LEMMA ToldStep ==
    ASSUME LockInv, ToldInv, Assumed, [Next]_vars
    PROVE  ToldInv'
<1>1. ASSUME NEW c \in Command, NEW d \in Doc, Take(c, d) \/ DocStep(c, d)
      PROVE  ToldInv'
  <2>1. UNCHANGED <<pc, outcome, signal, latest, stopRequested, told>>
    BY <1>1 DEF Take, DocStep, StepBegins, StepEnds, Settle, Suspend, ctl, flags
  <2>2. QED
    BY <2>1 DEF ToldInv
<1>2. CASE Stop
  <2>1. /\ UNCHANGED <<pc, outcome, latest>> /\ stopRequested' = TRUE
        /\ signal' = [c \in Command |-> signal[c] \/ c = latest]
        /\ told' = told \cup {c \in Command : pc[c] \in {"insert"} \cup Body}
    BY <1>2 DEF Stop
  <2>2. \A c \in told' : pc[c] \notin {"new", "select"} /\ c \in Command
    BY <2>1 DEF LockInv, TypeOK, ToldInv, Body
  <2>3. \A c \in told' : signal'[c] /\ (pc[c] = "final" => outcome[c] # "completed")
    BY <2>1, <2>2 DEF ToldInv, Body
  <2>4. QED
    BY <2>1, <2>2, <2>3 DEF ToldInv
<1>3. CASE Crash
  <2>1. /\ UNCHANGED <<signal, told>> /\ told \subseteq Command
        /\ \A c \in Command : pc'[c] \in {"new", "done"} /\ (pc'[c] = "new" => pc[c] = "new")
    BY <1>3 DEF Crash, LockInv, TypeOK
  <2>2. QED
    BY <2>1 DEF ToldInv, Body, Closing
<1>4. CASE Restart \/ UNCHANGED vars
  <2>1. UNCHANGED <<pc, outcome, signal, latest, stopRequested, told>>
    BY <1>4 DEF Restart, vars, ctl, flags
  <2>2. QED
    BY <2>1 DEF ToldInv
<1>5. QED
  BY <1>1, <1>2, <1>3, <1>4, ToldStart, ToldRun DEF Next

(* What is told to stop does not go on. *)
LEMMA ToldRests ==
    ASSUME LockInv, ToldInv, Assumed, [Next]_vars, NEW c \in told, NEW d \in Doc,
           exec[c][d] \in {"entry", "between"}
    PROVE  exec'[c][d] \in {"none", exec[c][d]}
<1>1. c \in Command /\ signal[c] /\ exec \in [Command -> [Doc -> Phase]]
  BY DEF LockInv, TypeOK, ToldInv
<1>2. ASSUME NEW e \in Command, RunStep(e)
      PROVE  exec'[c][d] = exec[c][d]
  <2>1. CASE ClaimDemanded(e)
    <3>1. PICK f \in Doc : /\ status[f] = "ready" /\ pc[e] = "demand"
                           /\ exec' = [exec EXCEPT ![e][f] = "entry"]
      BY <2>1 DEF LockInv, TypeOK, ClaimDemanded
    <3>2. <<e, f>> # <<c, d>>
      BY <1>1, <3>1 DEF LockInv, HandedOut
    <3>3. QED
      BY <1>1, <3>1, <3>2
  <2>2. CASE ~ClaimDemanded(e)
    BY <1>2, <2>2 DEF RunStep, SelectRetryable, SelectThrows, InsertRun, InsertThrows, ResetOne,
         ListBacklog, ForceReset, Produce, Discard, Advance, QueryThrows, Finish,
         WriteOutcome, WriteFailed, Release, work
  <2>3. QED
    BY <2>1, <2>2
<1>3. ASSUME NEW e \in Command, NEW f \in Doc, Take(e, f)
      PROVE  exec'[c][d] = exec[c][d]
  <2>1. /\ f \in queue[e] /\ exec' = [exec EXCEPT ![e][f] = "entry"]
    BY <1>3 DEF Take
  <2>2. <<e, f>> # <<c, d>>
    BY <1>1, <2>1 DEF LockInv, HandedOut
  <2>3. QED
    BY <1>1, <2>1, <2>2
<1>4. ASSUME NEW e \in Command, NEW f \in Doc, DocStep(e, f)
      PROVE  exec'[c][d] \in {"none", exec[c][d]}
  <2>1. CASE e = c /\ f = d
    BY <1>1, <1>4, <2>1 DEF DocStep, StepBegins, StepEnds, Settle, Suspend, SetPhase
  <2>2. CASE ~(e = c /\ f = d)
    <3>1. \E p \in Phase : exec' = [exec EXCEPT ![e][f] = p]
      BY <1>4 DEF DocStep, StepBegins, StepEnds, Settle, Suspend, SetPhase, Phase
    <3>2. QED
      BY <1>1, <2>2, <3>1
  <2>3. QED
    BY <2>1, <2>2
<1>5. CASE Stop \/ Restart \/ UNCHANGED vars \/ \E e \in Command : Start(e)
  BY <1>5 DEF Stop, Restart, vars, work, Start, Claim, ClaimRetry, CheckDoctor
<1>6. CASE Crash
  BY <1>1, <1>6 DEF Crash
<1>7. QED
  BY <1>2, <1>3, <1>4, <1>5, <1>6 DEF Next

(* A run that was told to stop does not end as completed. *)
LEMMA ToldEnds ==
    ASSUME LockInv, ToldInv, [Next]_vars, NEW c \in told, row[c] = "running"
    PROVE  row'[c] # "completed"
<1>1. /\ c \in Command /\ row \in [Command -> RowStatus]
      /\ pc[c] = "final" => outcome[c] # "completed"
  BY DEF LockInv, TypeOK, ToldInv
<1>2. ASSUME NEW e \in Command, RunStep(e)
      PROVE  row'[c] # "completed"
  <2>1. CASE InsertRun(e)
    BY <1>1, <2>1 DEF InsertRun
  <2>2. CASE WriteOutcome(e)
    BY <1>1, <2>2 DEF WriteOutcome
  <2>3. CASE WriteFailed(e)
    BY <1>1, <2>3 DEF WriteFailed
  <2>4. CASE ~(InsertRun(e) \/ WriteOutcome(e) \/ WriteFailed(e))
    BY <1>2, <2>4 DEF RunStep, SelectRetryable, SelectThrows, InsertThrows, ResetOne,
         ListBacklog, ClaimDemanded, ForceReset, Produce, Discard, Advance, QueryThrows, Finish,
         Release, db
  <2>5. QED
    BY <2>1, <2>2, <2>3, <2>4
<1>3. ASSUME NEW e \in Command, NEW f \in Doc, Take(e, f) \/ DocStep(e, f)
      PROVE  UNCHANGED row
  BY <1>3 DEF Take, DocStep, StepBegins, StepEnds, Settle, Suspend, db
<1>4. CASE Stop \/ Crash \/ UNCHANGED vars \/ \E e \in Command : Start(e)
  BY <1>4 DEF Stop, Crash, vars, db, Start, Claim, ClaimRetry, CheckDoctor
<1>5. CASE Restart
  BY <1>1, <1>5 DEF Restart
<1>6. QED
  BY <1>2, <1>3, <1>4, <1>5 DEF Next

(* Under the assumptions of the lock, a run that was told to stop begins no
   step of a document any more, and is not recorded as completed. *)
THEOREM StopIsKept ==
    ASSUME Assumed
    PROVE  Spec => StopHolds
<1>1. Init => ToldInv
  BY DEF Init, ToldInv, Body, Closing
<1>2. LockInv /\ ToldInv /\ [Next]_vars =>
        [\A c \in told :
           /\ \A d \in Doc :
                exec[c][d] \in {"entry", "between"} => exec'[c][d] \in {"none", exec[c][d]}
           /\ row[c] = "running" => row'[c] # "completed"]_vars
  BY ToldRests, ToldEnds
<1>3. QED
  BY <1>1, <1>2, LockInit, LockStep, ToldStep, PTL DEF Spec, StopHolds

-----------------------------------------------------------------------------
(* The refinement of SingleRun. *)

LEMMA Holder ==
    ASSUME Alone
    PROVE  /\ \A c \in Command : Active(c) => holder = c
           /\ (\A c \in Command : ~Active(c)) => holder = None
BY DEF Alone, holder

(* The same after a step. *)
LEMMA HolderNext ==
    ASSUME Alone'
    PROVE  /\ \A c \in Command : Active(c)' => holder' = c
           /\ (\A c \in Command : ~Active(c)') => holder' = None
BY DEF Alone, holder

(* Nothing in flight but what the active command has. *)
LEMMA Working ==
    ASSUME LockInv, NEW c \in Command, Active(c)
    PROVE  working = InFlight(c)
<1>1. \A e \in Command \ {c} : Quiet(e)
  BY DEF LockInv, Alone, AtRest, Active, Body
<1> QED  BY <1>1 DEF working, Quiet, InFlight

(* The same after a step. *)
LEMMA WorkingNext ==
    ASSUME LockInv', NEW c \in Command, Active(c)'
    PROVE  working' = InFlight(c)'
<1>1. \A e \in Command \ {c} : Quiet(e)'
  BY DEF LockInv, Alone, AtRest, Active, Body
<1> QED  BY <1>1 DEF working, Quiet, InFlight

LEMMA StartRefines ==
    ASSUME LockInv, LockInv', Assumed, NEW c \in Command, Start(c)
    PROVE  Lock!Acquire(c)
<1>1. \A e \in Command : ~Active(e)
  BY Free DEF Start, Claim, ClaimRetry, CheckDoctor
<1>2. holder = None
  BY <1>1, Holder DEF LockInv
<1>3. working = {} /\ UNCHANGED working
  BY <1>1 DEF LockInv, AtRest, Quiet, InFlight, Active, Body, working,
              Start, Claim, ClaimRetry, CheckDoctor, work
<1>4. Active(c)'
  BY DEF LockInv, TypeOK, Active, Start, Claim, ClaimRetry, CheckDoctor, Goto
<1>5. holder' = c
  BY <1>4, HolderNext DEF LockInv
<1> QED  BY <1>2, <1>3, <1>5 DEF Lock!Acquire

(* A step that leaves a command active, or ends it, with nothing in flight. *)
LEMMA RunRefines ==
    ASSUME LockInv, LockInv', Assumed, NEW c \in Command, RunStep(c)
    PROVE  Lock!Next \/ UNCHANGED <<holder, working>>
<1>1. Active(c)
  BY DEF RunStep, SelectRetryable, SelectThrows, InsertRun, InsertThrows, ResetOne, ListBacklog,
         ClaimDemanded, ForceReset, Produce, Discard, Advance, QueryThrows, Finish,
         WriteOutcome, WriteFailed, Release, Active, NextStage, LockInv, AtRest, Body
<1>2. holder = c /\ working = InFlight(c)
  BY <1>1, Holder, Working DEF LockInv
<1>3. CASE ClaimDemanded(c)
  <2>1. PICK d \in Doc : /\ status[d] = "ready"
                         /\ exec' = [exec EXCEPT ![c][d] = "entry"]
    BY <1>3 DEF LockInv, TypeOK, ClaimDemanded
  <2>2. d \notin InFlight(c)
    BY <1>3, <2>1 DEF LockInv, HandedOut, InFlight, ClaimDemanded
  <2>3. Active(c)'
    BY <1>1, <1>3 DEF ClaimDemanded, Active, ctl
  <2>4. holder' = c /\ working' = InFlight(c)'
    BY <2>3, HolderNext, WorkingNext DEF LockInv
  <2>5. InFlight(c)' = InFlight(c) \cup {d}
    BY <2>1 DEF LockInv, TypeOK, InFlight
  <2> QED
    BY <1>2, <2>2, <2>4, <2>5, NoneAssumption DEF Lock!Next, Lock!Begin
<1>4. CASE ~ClaimDemanded(c)
  <2>1. exec' = exec
    BY <1>4 DEF RunStep, SelectRetryable, SelectThrows, InsertRun, InsertThrows, ResetOne,
         ListBacklog, ForceReset, Produce, Discard, Advance, QueryThrows, Finish,
         WriteOutcome, WriteFailed, Release, work
  <2>2. UNCHANGED working
    BY <2>1 DEF working
  <2>3. CASE Active(c)'
    BY <1>2, <2>2, <2>3, HolderNext DEF LockInv
  <2>4. CASE ~Active(c)'
    <3>1. pc[c] \notin Body
      BY <1>1, <1>4, <2>4
         DEF RunStep, SelectRetryable, SelectThrows, InsertRun, InsertThrows, ResetOne,
             ListBacklog, ForceReset, Produce, Discard, Advance, QueryThrows, Finish,
             WriteOutcome, WriteFailed, Release, Active, Goto, NextStage, Body, LockInv, TypeOK,
             ctl
    <3>2. working = {}
      BY <1>2, <3>1 DEF LockInv, AtRest, Quiet
    <3>3. \A e \in Command : ~Active(e)'
      BY <1>1, <1>4, <2>4
         DEF RunStep, SelectRetryable, SelectThrows, InsertRun, InsertThrows, ResetOne,
             ListBacklog, ForceReset, Produce, Discard, Advance, QueryThrows, Finish,
             WriteOutcome, WriteFailed, Release, Active, Goto, LockInv, Alone, TypeOK, ctl
    <3>4. holder' = None
      BY <3>3, HolderNext DEF LockInv
    <3> QED  BY <2>2, <3>2, <3>4 DEF Lock!Next, Lock!Release
  <2> QED  BY <2>3, <2>4
<1> QED  BY <1>3, <1>4

LEMMA DocRefines ==
    ASSUME LockInv, LockInv', Assumed, NEW c \in Command, NEW d \in Doc,
           Take(c, d) \/ DocStep(c, d)
    PROVE  Lock!Next \/ UNCHANGED <<holder, working>>
<1>1. UNCHANGED pc
  BY DEF Take, DocStep, StepBegins, StepEnds, Settle, Suspend, ctl
<1>2. UNCHANGED holder
  BY <1>1 DEF holder, Active
<1>3. Active(c)
  BY DEF LockInv, AtRest, Quiet, InFlight, Active, Body, Take, DocStep, StepBegins, StepEnds,
         Settle, Suspend
<1>4. /\ holder = c /\ working = InFlight(c)
      /\ working' = InFlight(c)'
  BY <1>1, <1>3, Holder, Working, WorkingNext DEF LockInv, Active
<1>5. PICK p \in Phase : exec' = [exec EXCEPT ![c][d] = p]
  BY DEF Take, DocStep, StepBegins, StepEnds, Settle, Suspend, SetPhase, Phase
<1>6. InFlight(c)' = IF p = "none" THEN InFlight(c) \ {d} ELSE InFlight(c) \cup {d}
  BY <1>5 DEF LockInv, TypeOK, InFlight
<1>7. CASE Take(c, d)
  <2>1. d \notin InFlight(c) /\ p # "none"
    BY <1>5, <1>7 DEF LockInv, TypeOK, HandedOut, InFlight, Take
  <2> QED  BY <1>2, <1>4, <1>6, <2>1, NoneAssumption DEF Lock!Next, Lock!Begin
<1>8. CASE DocStep(c, d)
  <2>1. d \in InFlight(c)
    BY <1>8 DEF DocStep, StepBegins, StepEnds, Settle, Suspend, InFlight
  <2> QED  BY <1>2, <1>4, <1>6, <2>1 DEF Lock!Next, Lock!End
<1> QED  BY <1>7, <1>8

LEMMA AroundRefines ==
    ASSUME LockInv', Stop \/ Crash \/ Restart \/ UNCHANGED vars
    PROVE  Lock!Next \/ UNCHANGED <<holder, working>>
<1>1. CASE Crash
  <2>1. \A c \in Command : ~Active(c)' /\ \A d \in Doc : exec'[c][d] = "none"
    BY <1>1 DEF Crash, Active
  <2>2. holder' = None
    BY <2>1, HolderNext DEF LockInv
  <2>3. working' = {}
    BY <2>1 DEF working
  <2> QED  BY <2>2, <2>3 DEF Lock!Next, Lock!Crash
<1>2. CASE Stop \/ Restart \/ UNCHANGED vars
  <2>1. UNCHANGED <<pc, exec>>
    BY <1>2 DEF Stop, Restart, vars, ctl, work
  <2> QED  BY <2>1 DEF holder, working, Active
<1> QED  BY <1>1, <1>2

(* Under the same assumptions the runner implements SingleRun: one run at a
   time holds it, and it lets go only when no document is in flight. *)
THEOREM Refinement ==
    ASSUME Assumed
    PROVE  Spec => Implements
<1>1. Init => Lock!Init
  BY DEF Init, Lock!Init, holder, working, Active
<1>2. LockInv /\ LockInv' /\ [Next]_vars => [Lock!Next]_<<holder, working>>
  <2> SUFFICES ASSUME LockInv, LockInv', [Next]_vars
               PROVE  Lock!Next \/ UNCHANGED <<holder, working>>
    OBVIOUS
  <2>1. ASSUME NEW c \in Command, Start(c)
        PROVE  Lock!Next
    BY <2>1, StartRefines DEF Lock!Next
  <2> QED  BY <2>1, RunRefines, DocRefines, AroundRefines DEF Next
<1> QED  BY <1>1, <1>2, LockInit, LockStep, PTL DEF Spec, Implements, Lock!Spec
=============================================================================
