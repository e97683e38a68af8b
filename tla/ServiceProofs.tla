--------------------------- MODULE ServiceProofs ---------------------------
(***************************************************************************)
(* The two services beside the pipeline.                                   *)
(*                                                                         *)
(* The enrichment worker, proved for any number of documents and sources,  *)
(* any sizes of batch, pool and quota, and any number of days, crashes and *)
(* failures: the quota of a source is exceeded by no more than what waits  *)
(* between its check and its count, and a worker that says it is stopped   *)
(* has nothing in flight.                                                  *)
(*                                                                         *)
(* The embed service, proved for any requests, texts and backends, any     *)
(* size of batch and number of calls at once, of retries and               *)
(* registrations: an answer has the vector of every text at its place, and *)
(* the count of a backend is the number of its calls.                      *)
(***************************************************************************)
EXTENDS Enrichment, EmbedService, FiniteSetTheorems, WellFoundedInduction, TLAPS

-----------------------------------------------------------------------------
(* The inductive invariant. *)

Bound == MaxPerDay + Concurrency - 1

TaskPC == {"off", "start", "acquire", "wait", "write", "rename", "ask", "locate",
           "licenses", "reindex", "attempt"}

(* A snapshot of the counters, as it is saved. *)
Counters == [Sources -> (0 .. MaxDays) \X (0 .. Bound)]

Types ==
    /\ task \in [Docs -> TaskPC]
    /\ src \in [Docs -> 1 .. NSources + 1]
    /\ day \in 1 .. MaxDays
    /\ cons \in [Sources -> Nat]
    /\ date \in [Sources -> 1 .. MaxDays]
    /\ saved \in Counters /\ tmp \in Counters /\ snap \in [Docs -> Counters]
    /\ batch \in SUBSET Docs
    /\ permits \in Nat

(* A task that talks to the limiter is at a source. *)
AtSource ==
    \A d \in Docs :
        /\ task[d] \in {"off", "start"} => src[d] = 1
        /\ task[d] \in {"acquire", "wait", "write", "rename"} => src[d] \in Sources

(* The loop: each task has a permit, and so has the loop when it was granted
   one; a batch is of documents that have no task; between two batches there
   is none. *)
Held == IF loop = "granted" THEN 1 ELSE 0

LoopInv ==
    /\ permits = Cardinality(Active) + Held
    /\ permits <= Concurrency
    /\ \A d \in batch : task[d] = "off"
    /\ loop \in {"parked", "granted"} => batch # {}
    /\ loop \in {"select", "idle", "ended", "down"} => Active = {}
    /\ state \in {"idle", "error"} => loop \in {"ended", "down"}

(* The quota: what is counted and what waits to be counted. *)
Queued(s) == {d \in Docs : task[d] = "wait" /\ src[d] = s}

QuotaInv == \A s \in Sources : cons[s] + Cardinality(Queued(s)) <= Bound

WorkerInv == Types /\ AtSource /\ LoopInv /\ QuotaInv

-----------------------------------------------------------------------------
(* Sets of documents are finite, and a set that has one has a newest one. *)

LEMMA FiniteDocs ==
    /\ IsFiniteSet(Docs)
    /\ \A S \in SUBSET Docs : IsFiniteSet(S) /\ Cardinality(S) \in Nat
<1>1. IsFiniteSet(Docs)
  BY FS_Interval, ConstantsAssumption DEF Docs
<1>2. \A S \in SUBSET Docs : IsFiniteSet(S)
  BY <1>1, FS_Subset
<1>3. QED
  BY <1>1, <1>2, FS_CardinalityType

(* Among documents that are there one is the newest. *)
LEMMA NewestOne ==
    ASSUME NEW S \in SUBSET Docs, S # {}
    PROVE  \E e \in S : \A f \in S : f <= e
<1> DEFINE T == {n \in Nat : NDocs - n \in S}
           R == {ss \in Nat \X Nat : ss[1] < ss[2]}
<1>1. NDocs \in Nat /\ \A e \in S : e \in 1 .. NDocs
  BY ConstantsAssumption DEF Docs
<1>2. IsWellFoundedOn(R, Nat)
  BY NatLessThanWellFounded DEF OpToRel
<1>3. T # {} /\ T \subseteq Nat
  <2>1. PICK e \in S : TRUE
    OBVIOUS
  <2>2. NDocs - e \in T
    BY <1>1, <2>1
  <2>3. QED
    BY <2>2
<1> HIDE DEF R
<1>4. PICK n \in T : \A m \in T : ~(<<m, n>> \in R)
  BY <1>2, <1>3, WFMin
<1>5. \A f \in S : f <= NDocs - n
  <2> TAKE f \in S
  <2>1. NDocs - f \in T /\ NDocs - f \in Nat
    BY <1>1
  <2>2. ~(NDocs - f < n)
    BY <1>3, <1>4, <2>1 DEF R
  <2>3. QED
    BY <1>1, <1>3, <1>4, <2>1, <2>2
<1>6. QED
  BY <1>4, <1>5

(* One document more, or less, in a set of documents. *)
LEMMA OneMore ==
    ASSUME NEW S \in SUBSET Docs, NEW d \in Docs \ S
    PROVE  Cardinality(S \cup {d}) = Cardinality(S) + 1
BY FiniteDocs, FS_AddElement

(* One document less in a set of documents. *)
LEMMA OneLess ==
    ASSUME NEW S \in SUBSET Docs, NEW d \in S
    PROVE  Cardinality(S \ {d}) = Cardinality(S) - 1
BY FiniteDocs, FS_RemoveElement

(* A part of a set of documents is no larger. *)
LEMMA Fewer ==
    ASSUME NEW S \in SUBSET Docs, NEW T \in SUBSET S
    PROVE  Cardinality(T) <= Cardinality(S)
BY FiniteDocs, FS_Subset

-----------------------------------------------------------------------------
(* What a step of a task does to the loop: the task goes on, or it ends and
   gives back its permit. *)

GoesOn(d) ==
    /\ \E l \in TaskPC \ {"off"} : Goto(d, l)
    /\ UNCHANGED <<loop, permits>>

Ends(d) == Goto(d, "off") /\ Release

(* A step of a task goes on or ends, and leaves batch, state and day alone. *)
LEMMA StepCases ==
    ASSUME NEW d \in Docs, Step(d)
    PROVE  /\ task[d] # "off"
           /\ GoesOn(d) \/ Ends(d)
           /\ UNCHANGED <<batch, state, day>>
<1> USE DEF GoesOn, Ends, Proceed, Rejects, Throws, Leave, Clear, TaskPC, At
<1>1. CASE Start(d)
  BY <1>1 DEF Start
<1>2. CASE Acquire(d)
  BY <1>2 DEF Acquire, Consume
<1>3. CASE Waited(d)
  BY <1>3 DEF Waited, Consume
<1>4. CASE WriteTmp(d)
  BY <1>4 DEF WriteTmp
<1>5. CASE Rename(d)
  BY <1>5 DEF Rename
<1>6. CASE Ask(d)
  BY <1>6 DEF Ask
<1>7. CASE Locate(d)
  BY <1>7 DEF Locate
<1>8. CASE UpdateLicenses(d)
  BY <1>8 DEF UpdateLicenses
<1>9. CASE TriggerReindex(d)
  BY <1>9 DEF TriggerReindex
<1>10. CASE InsertAttempt(d)
  BY <1>10 DEF InsertAttempt
<1>11. QED
  BY <1>1, <1>2, <1>3, <1>4, <1>5, <1>6, <1>7, <1>8, <1>9, <1>10 DEF Step

(* Either way the permits still add up. *)
LEMMA StepLoop ==
    ASSUME WorkerInv, NEW d \in Docs, Step(d)
    PROVE  LoopInv' /\ permits' \in Nat
<1>1. /\ task \in [Docs -> TaskPC] /\ Active \in SUBSET Docs /\ d \in Active
      /\ Cardinality(Active) \in Nat /\ permits \in Nat
  BY StepCases, FiniteDocs DEF WorkerInv, Types, Active
<1>2. UNCHANGED <<batch, state>>
  BY StepCases
<1>3. loop \notin {"select", "idle", "ended", "down"}
  BY <1>1 DEF WorkerInv, LoopInv
<1>4. CASE GoesOn(d)
  <2>1. Active' = Active /\ task'[d] # "off" /\ \A e \in Docs \ {d} : task'[e] = task[e]
    BY <1>1, <1>4 DEF GoesOn, Goto, Active
  <2>2. d \notin batch
    BY <1>1 DEF WorkerInv, LoopInv, Active
  <2>3. QED
    BY <1>1, <1>2, <1>4, <2>1, <2>2 DEF GoesOn, WorkerInv, LoopInv, Held, Types
<1>5. CASE Ends(d)
  <2>1. Active' = Active \ {d} /\ task'[d] = "off" /\ \A e \in Docs \ {d} : task'[e] = task[e]
    BY <1>1, <1>5 DEF Ends, Goto, Active
  <2>2. Cardinality(Active') = Cardinality(Active) - 1 /\ Cardinality(Active') \in Nat
    <3>1. Active' \in SUBSET Docs
      BY <1>1, <2>1
    <3>2. QED
      BY <1>1, <2>1, <3>1, OneLess, FiniteDocs
  <2>3. permits' = Cardinality(Active') + Held' /\ permits' <= Concurrency /\ permits' \in Nat
    <3>1. CASE loop = "parked"
      BY <1>1, <1>5, <2>2, <3>1 DEF Ends, Release, WorkerInv, LoopInv, Held
    <3>2. CASE loop # "parked"
      <4>1. Concurrency \in Nat
        BY ConstantsAssumption
      <4>2. permits' = permits - 1 /\ Held' = Held /\ Held \in 0 .. 1
        BY <1>5, <3>2 DEF Ends, Release, Held
      <4>3. permits = Cardinality(Active) + Held /\ permits <= Concurrency
        BY DEF WorkerInv, LoopInv
      <4>4. QED
        BY <1>1, <2>2, <4>1, <4>2, <4>3
    <3>3. QED
      BY <3>1, <3>2
  <2>4. \A e \in batch' : task'[e] = "off"
    BY <1>2, <2>1 DEF WorkerInv, LoopInv, Types
  <2>5. loop' = loop \/ (loop = "parked" /\ loop' = "granted")
    BY <1>5 DEF Ends, Release
  <2>6. /\ loop' \in {"parked", "granted"} => batch' # {}
        /\ loop' \notin {"select", "idle", "ended", "down"}
        /\ state' \in {"idle", "error"} => loop' \in {"ended", "down"}
    BY <1>2, <1>3, <2>5 DEF WorkerInv, LoopInv
  <2>7. QED
    BY <2>3, <2>4, <2>6 DEF LoopInv
<1>6. QED
  BY <1>4, <1>5, StepCases

-----------------------------------------------------------------------------
(* What a step of a task does to the quota. *)

Limits ==
    /\ QuotaInv' /\ AtSource'
    /\ src' \in [Docs -> 1 .. NSources + 1]
    /\ cons' \in [Sources -> Nat] /\ date' \in [Sources -> 1 .. MaxDays]
    /\ saved' \in Counters /\ tmp' \in Counters /\ snap' \in [Docs -> Counters]

(* The sizes are positive, and an empty snapshot is one. *)
LEMMA Sizes ==
    /\ MaxPerDay \in Nat \ {0} /\ Concurrency \in Nat \ {0} /\ MaxDays \in Nat \ {0}
    /\ NSources \in Nat \ {0} /\ Bound \in Nat /\ NoSnap \in Counters
<1>1. /\ MaxPerDay \in Nat \ {0} /\ Concurrency \in Nat \ {0} /\ MaxDays \in Nat \ {0}
      /\ NSources \in Nat \ {0}
  BY ConstantsAssumption
<1>2. Bound \in Nat
  BY <1>1 DEF Bound
<1>3. NoSnap \in Counters
  BY <1>1, <1>2 DEF NoSnap, Counters
<1>4. QED
  BY <1>1, <1>2, <1>3

(* What waits at a source is a finite set of documents. *)
LEMMA QueueTypes ==
    \A s \in Sources : Queued(s) \in SUBSET Docs /\ Cardinality(Queued(s)) \in Nat
BY FiniteDocs DEF Queued

(* A task that does not wait leaves the queues of the others as they are. *)
LEMMA QueueLeft ==
    ASSUME Types, NEW d \in Docs, NEW l \in TaskPC \ {"wait"}, Goto(d, l),
           \A e \in Docs \ {d} : src'[e] = src[e]
    PROVE  \A s \in Sources : /\ Queued(s)' = Queued(s) \ {d}
                              /\ Cardinality(Queued(s)') \in Nat
                              /\ Cardinality(Queued(s)') <= Cardinality(Queued(s))
<1>1. \A s \in Sources : Queued(s)' = Queued(s) \ {d}
  BY DEF Types, Goto, Queued
<1>2. \A s \in Sources : Queued(s) \in SUBSET Docs /\ Queued(s)' \in SUBSET Queued(s)
  BY <1>1 DEF Queued
<1>3. QED
  BY <1>1, <1>2, Fewer, FiniteDocs

(* The counters stay: so does the quota. *)
LEMMA CountStays ==
    ASSUME WorkerInv, NEW d \in Docs, NEW l \in TaskPC \ {"wait"}, Goto(d, l),
           \A e \in Docs \ {d} : src'[e] = src[e],
           \A s \in Sources : cons'[s] <= cons[s], cons' \in [Sources -> Nat]
    PROVE  QuotaInv'
<1>1. \A s \in Sources : /\ Cardinality(Queued(s)') \in Nat
                         /\ Cardinality(Queued(s)') <= Cardinality(Queued(s))
                         /\ Cardinality(Queued(s)) \in Nat
  BY QueueLeft, QueueTypes DEF WorkerInv
<1>2. \A s \in Sources : cons[s] \in Nat /\ cons'[s] \in Nat /\ cons'[s] <= cons[s]
  BY DEF WorkerInv, Types
<1>3. \A s \in Sources : cons[s] + Cardinality(Queued(s)) <= Bound
  BY DEF WorkerInv, QuotaInv
<1>4. QED
  BY <1>1, <1>2, <1>3, Sizes DEF QuotaInv

(* Where a task is in the list of sources after its step. *)
LEMMA SourceKept ==
    ASSUME WorkerInv, NEW d \in Docs, NEW l \in TaskPC, Goto(d, l),
           NEW n \in 1 .. NSources + 1, src' = [src EXCEPT ![d] = n],
           l \in {"off", "start"} => n = 1,
           l \in {"acquire", "wait", "write", "rename"} => n \in Sources
    PROVE  AtSource' /\ src' \in [Docs -> 1 .. NSources + 1]
BY DEF WorkerInv, Types, AtSource, Goto

(* One request is counted. *)
LEMMA ConsumeKeeps ==
    ASSUME WorkerInv, NEW d \in Docs, NEW s \in Sources, s = src[d], NEW n \in Nat,
           task[d] \in {"acquire", "wait"},
           n + 1 + Cardinality(Queued(s) \ {d}) <= Bound,
           Consume(d, s, n), date' \in [Sources -> 1 .. MaxDays]
    PROVE  /\ QuotaInv' /\ AtSource' /\ src' \in [Docs -> 1 .. NSources + 1]
           /\ cons' \in [Sources -> Nat] /\ snap' \in [Docs -> Counters]
<1>1. cons' = [cons EXCEPT ![s] = n + 1] /\ cons' \in [Sources -> Nat]
  BY DEF Consume, WorkerInv, Types
<1>2. /\ src \in [Docs -> 1 .. NSources + 1] /\ s \in 1 .. NSources /\ s + 1 \in 1 .. NSources + 1
      /\ src = [src EXCEPT ![d] = s]
  <2>1. src \in [Docs -> 1 .. NSources + 1]
    BY DEF WorkerInv, Types
  <2>2. src = [src EXCEPT ![d] = src[d]]
    BY <2>1
  <2>3. QED
    BY <2>1, <2>2, Sizes DEF Sources
<1>3. PICK l \in {"write", "acquire", "ask"}, m \in {s, s + 1} :
        /\ Goto(d, l) /\ src' = [src EXCEPT ![d] = m]
        /\ l = "write" => m = s
        /\ l = "acquire" => m = s + 1 /\ s < NSources
        /\ \/ UNCHANGED snap
           \/ snap' = [snap EXCEPT ![d] = [r \in Sources |-> <<date'[r], cons'[r]>>]]
  <2>1. CASE (n + 1) % PersistEvery = 0
    BY <1>2, <2>1 DEF Consume, Proceed
  <2>2. CASE (n + 1) % PersistEvery # 0
    BY <1>2, <2>2 DEF Consume, Proceed
  <2>3. QED
    BY <2>1, <2>2
<1>4. m \in 1 .. NSources + 1 /\ (l \in {"write", "acquire"} => m \in Sources)
  BY <1>2, <1>3, Sizes DEF Sources
<1>5. AtSource' /\ src' \in [Docs -> 1 .. NSources + 1]
  <2>1. /\ l \in TaskPC /\ l \notin {"off", "start"}
        /\ l \in {"acquire", "wait", "write", "rename"} => m \in Sources
    BY <1>3, <1>4 DEF TaskPC
  <2>2. QED
    BY <1>3, <1>4, <2>1, SourceKept
<1>6. \A r \in Sources : /\ Queued(r)' = Queued(r) \ {d}
                         /\ Cardinality(Queued(r)') \in Nat
                         /\ Cardinality(Queued(r)') <= Cardinality(Queued(r))
                         /\ Cardinality(Queued(r)) \in Nat
  <2>1. \A e \in Docs \ {d} : src'[e] = src[e]
    BY <1>2, <1>3
  <2>2. QED
    BY <1>3, <2>1, QueueLeft, QueueTypes DEF WorkerInv, TaskPC
<1>7. QuotaInv'
  <2>1. ASSUME NEW r \in Sources PROVE cons'[r] + Cardinality(Queued(r)') <= Bound
    <3>1. CASE r = s
      BY <1>1, <1>6, <3>1 DEF WorkerInv, Types
    <3>2. CASE r # s
      <4>1. cons'[r] = cons[r] /\ cons[r] \in Nat /\ cons[r] + Cardinality(Queued(r)) <= Bound
        BY <1>1, <3>2 DEF WorkerInv, Types, QuotaInv
      <4>2. QED
        BY <1>6, <4>1, Sizes
    <3>3. QED
      BY <3>1, <3>2
  <2>2. QED
    BY <2>1 DEF QuotaInv
<1>8. snap' \in [Docs -> Counters]
  <2>1. \A r \in Sources : date'[r] \in 0 .. MaxDays /\ cons'[r] \in 0 .. Bound
    <3>1. \A r \in Sources : cons'[r] \in Nat /\ cons'[r] + Cardinality(Queued(r)') <= Bound
      BY <1>1, <1>7 DEF QuotaInv
    <3>2. QED
      BY <1>6, <3>1, Sizes
  <2>2. [r \in Sources |-> <<date'[r], cons'[r]>>] \in Counters
    BY <2>1 DEF Counters
  <2>3. QED
    BY <1>3, <2>2 DEF WorkerInv, Types
<1>9. QED
  BY <1>1, <1>5, <1>7, <1>8

(* A task goes on at the same source or at another one, and counts nothing. *)
LEMMA GoKeeps ==
    ASSUME WorkerInv, NEW d \in Docs, NEW l \in TaskPC \ {"wait", "off", "start"}, Goto(d, l),
           NEW n \in 1 .. NSources + 1, src' = [src EXCEPT ![d] = n],
           l \in {"acquire", "write", "rename"} => n \in Sources,
           \A s \in Sources : cons'[s] <= cons[s], cons' \in [Sources -> Nat]
    PROVE  QuotaInv' /\ AtSource' /\ src' \in [Docs -> 1 .. NSources + 1]
<1>1. \A e \in Docs \ {d} : src'[e] = src[e]
  BY DEF WorkerInv, Types
<1>2. QuotaInv'
  BY <1>1, CountStays
<1>3. AtSource' /\ src' \in [Docs -> 1 .. NSources + 1]
  BY SourceKept
<1>4. QED
  BY <1>2, <1>3

(* A task is at a source, or past the last one. *)
LEMMA SameSource ==
    ASSUME WorkerInv, NEW d \in Docs
    PROVE  src[d] \in 1 .. NSources + 1 /\ src = [src EXCEPT ![d] = src[d]]
<1>1. src \in [Docs -> 1 .. NSources + 1]
  BY DEF WorkerInv, Types
<1>2. QED
  BY <1>1

(* A task that ends leaves nothing behind. *)
LEMMA ClearKeeps ==
    ASSUME WorkerInv, NEW d \in Docs, Clear(d), UNCHANGED cons
    PROVE  /\ QuotaInv' /\ AtSource' /\ src' \in [Docs -> 1 .. NSources + 1]
           /\ snap' \in [Docs -> Counters]
<1>1. Goto(d, "off") /\ src' = [src EXCEPT ![d] = 1] /\ snap' = [snap EXCEPT ![d] = NoSnap]
  BY DEF Clear
<1>2. \A e \in Docs \ {d} : src'[e] = src[e]
  BY <1>1 DEF WorkerInv, Types
<1>3. /\ cons' \in [Sources -> Nat] /\ \A s \in Sources : cons'[s] <= cons[s]
  BY DEF WorkerInv, Types
<1>4. QuotaInv'
  BY <1>1, <1>2, <1>3, CountStays DEF TaskPC
<1>5. AtSource' /\ src' \in [Docs -> 1 .. NSources + 1]
  <2>1. 1 \in 1 .. NSources + 1 /\ "off" \in TaskPC
    BY Sizes DEF TaskPC
  <2>2. QED
    BY <1>1, <2>1, SourceKept
<1>6. snap' \in [Docs -> Counters]
  BY <1>1, Sizes DEF WorkerInv, Types
<1>7. QED
  BY <1>4, <1>5, <1>6

(* The check against the quota, with everything the day may reset before it. *)
LEMMA AcquireKeeps ==
    ASSUME WorkerInv, NEW d \in Docs, Acquire(d)
    PROVE  Limits
<1>0. PICK s \in Sources : s = src[d] /\ task[d] = "acquire"
  BY DEF WorkerInv, AtSource, Types, Acquire, At
<1>00. PICK n \in Nat : n = (IF date[s] = day THEN cons[s] ELSE 0)
  BY DEF WorkerInv, Types
<1>1. /\ s \in Sources /\ task[d] = "acquire" /\ d \in Active /\ Active \in SUBSET Docs
      /\ cons[s] \in Nat /\ n \in Nat /\ n <= cons[s]
      /\ cons \in [Sources -> Nat]
  BY <1>0, <1>00 DEF WorkerInv, Types, Active
<1>2. /\ date' = [date EXCEPT ![s] = day] /\ date' \in [Sources -> 1 .. MaxDays]
      /\ UNCHANGED <<saved, tmp>>
  BY <1>0 DEF Acquire, WorkerInv, Types
<1>3. saved' \in Counters /\ tmp' \in Counters
  BY <1>2 DEF WorkerInv, Types
<1>4. CASE n >= MaxPerDay
  <2>1. /\ cons' = [cons EXCEPT ![s] = n] /\ src' = [src EXCEPT ![d] = s + 1]
        /\ Goto(d, IF s < NSources THEN "acquire" ELSE "ask") /\ UNCHANGED snap
    BY <1>0, <1>00, <1>4 DEF Acquire, Proceed
  <2>2. cons' \in [Sources -> Nat] /\ \A r \in Sources : cons'[r] <= cons[r]
    BY <1>1, <2>1
  <2>3. s + 1 \in 1 .. NSources + 1 /\ (s < NSources => s + 1 \in Sources)
    BY <1>1, Sizes DEF Sources
  <2>4. \E l \in {"acquire", "ask"} : Goto(d, l) /\ (l = "acquire" => s + 1 \in Sources)
    BY <2>1, <2>3
  <2>5. QuotaInv' /\ AtSource' /\ src' \in [Docs -> 1 .. NSources + 1]
    BY <2>1, <2>2, <2>3, <2>4, GoKeeps DEF TaskPC
  <2>6. QED
    BY <1>2, <1>3, <2>1, <2>2, <2>5 DEF Limits, WorkerInv, Types
<1>5. CASE n < MaxPerDay
  <2>1. /\ Queued(s) \in SUBSET Active /\ d \notin Queued(s)
        /\ Queued(s) \cup {d} \in SUBSET Active /\ Queued(s) \in SUBSET Docs
    BY <1>1 DEF Queued, Active
  <2>2. Cardinality(Queued(s)) + 1 = Cardinality(Queued(s) \cup {d})
    BY <2>1, OneMore
  <2>3. Cardinality(Queued(s) \cup {d}) <= Cardinality(Active)
    BY <1>1, <2>1, Fewer
  <2>4. Cardinality(Active) <= Concurrency /\ Cardinality(Active) \in Nat
    <3>1. Cardinality(Active) \in Nat
      BY <1>1, FiniteDocs
    <3>2. permits = Cardinality(Active) + Held /\ permits <= Concurrency /\ Held \in 0 .. 1
      BY DEF WorkerInv, LoopInv, Held
    <3>3. QED
      BY <3>1, <3>2, Sizes
  <2>5. Cardinality(Queued(s)) \in Nat /\ Cardinality(Queued(s)) + 1 <= Concurrency
    BY <1>1, <2>2, <2>3, <2>4, QueueTypes, Sizes
  <2>6. CASE Consume(d, s, n)
    <3>1. Queued(s) \ {d} = Queued(s)
      BY <2>1
    <3>2. n + 1 + Cardinality(Queued(s)) <= Bound
      BY <1>1, <1>5, <2>5, Sizes DEF Bound
    <3>3. /\ QuotaInv' /\ AtSource' /\ src' \in [Docs -> 1 .. NSources + 1]
          /\ cons' \in [Sources -> Nat] /\ snap' \in [Docs -> Counters]
      BY <1>0, <1>1, <1>2, <2>6, <3>1, <3>2, ConsumeKeeps
    <3>4. QED
      BY <1>2, <1>3, <3>3 DEF Limits
  <2>7. CASE cons' = [cons EXCEPT ![s] = n] /\ Goto(d, "wait") /\ UNCHANGED <<src, snap>>
    <3>1. cons' \in [Sources -> Nat] /\ cons'[s] = n /\ \A r \in Sources \ {s} : cons'[r] = cons[r]
      BY <1>1, <2>7
    <3>2. /\ Queued(s)' = Queued(s) \cup {d}
          /\ \A r \in Sources \ {s} : Queued(r)' = Queued(r)
      BY <1>0, <1>1, <2>7 DEF Queued, Goto, WorkerInv, Types
    <3>3. n + Cardinality(Queued(s)') <= Bound
      BY <1>1, <1>5, <2>2, <2>5, <3>2, Sizes DEF Bound
    <3>4. QuotaInv'
      <4>1. ASSUME NEW r \in Sources PROVE cons'[r] + Cardinality(Queued(r)') <= Bound
        <5>1. CASE r = s
          <6>1. Queued(r)' = Queued(s)'
            BY <5>1
          <6>2. cons'[r] = n
            BY <3>1, <5>1
          <6>3. QED
            BY <3>3, <6>1, <6>2
        <5>2. CASE r # s
          <6>1. cons'[r] = cons[r] /\ Queued(r)' = Queued(r)
            BY <3>1, <3>2, <5>2
          <6>2. cons[r] + Cardinality(Queued(r)) <= Bound
            BY DEF WorkerInv, QuotaInv
          <6>3. QED
            BY <6>1, <6>2
        <5>3. QED
          BY <5>1, <5>2
      <4>2. QED
        BY <4>1 DEF QuotaInv
    <3>5. AtSource' /\ src' \in [Docs -> 1 .. NSources + 1]
      BY <1>0, <1>1, <2>7, SameSource, SourceKept DEF TaskPC
    <3>6. QED
      BY <1>2, <1>3, <2>7, <3>1, <3>4, <3>5 DEF Limits, WorkerInv, Types
  <2>8. Consume(d, s, n) \/ (cons' = [cons EXCEPT ![s] = n] /\ Goto(d, "wait") /\ UNCHANGED <<src, snap>>)
    BY <1>0, <1>00, <1>1, <1>5, Sizes DEF Acquire, Proceed
  <2>9. QED
    BY <2>6, <2>7, <2>8
<1>6. QED
  BY <1>1, <1>4, <1>5, Sizes

(* The count after the wait. *)
LEMMA WaitedKeeps ==
    ASSUME WorkerInv, NEW d \in Docs, Waited(d)
    PROVE  Limits
<1> DEFINE s == src[d]
           n == cons[s]
<1>1. /\ s \in Sources /\ task[d] = "wait" /\ n \in Nat /\ UNCHANGED <<date, saved, tmp>>
      /\ Consume(d, s, n)
  BY DEF WorkerInv, AtSource, Types, Waited, At
<1>2. d \in Queued(s) /\ Queued(s) \in SUBSET Docs
  BY <1>1 DEF Queued
<1>3. Cardinality(Queued(s) \ {d}) = Cardinality(Queued(s)) - 1 /\ Cardinality(Queued(s)) \in Nat
  BY <1>1, <1>2, OneLess, QueueTypes
<1>4. n + 1 + Cardinality(Queued(s) \ {d}) <= Bound
  BY <1>1, <1>3, Sizes DEF WorkerInv, QuotaInv
<1>5. date' \in [Sources -> 1 .. MaxDays] /\ saved' \in Counters /\ tmp' \in Counters
  BY <1>1 DEF WorkerInv, Types
<1>6. /\ QuotaInv' /\ AtSource' /\ src' \in [Docs -> 1 .. NSources + 1]
      /\ cons' \in [Sources -> Nat] /\ snap' \in [Docs -> Counters]
  BY <1>1, <1>4, <1>5, ConsumeKeeps
<1>7. QED
  BY <1>5, <1>6 DEF Limits

(* The other steps of a task count nothing. *)
LEMMA NothingCounted ==
    ASSUME WorkerInv, NEW d \in Docs, UNCHANGED <<cons, date>>
    PROVE  /\ cons' \in [Sources -> Nat] /\ date' \in [Sources -> 1 .. MaxDays]
           /\ \A s \in Sources : cons'[s] <= cons[s]
BY DEF WorkerInv, Types

(* No step of a task breaks a limit. *)
LEMMA StepLimits ==
    ASSUME WorkerInv, NEW d \in Docs, Step(d)
    PROVE  Limits
<1>1. /\ src[d] \in 1 .. NSources + 1 /\ src = [src EXCEPT ![d] = src[d]]
      /\ NSources \in Nat \ {0} /\ 1 \in Sources /\ 1 \in 1 .. NSources + 1
  BY SameSource, Sizes DEF Sources
<1>2. saved \in Counters /\ tmp \in Counters /\ snap \in [Docs -> Counters] /\ NoSnap \in Counters
  BY Sizes DEF WorkerInv, Types
<1>3. ASSUME UNCHANGED <<cons, date, saved, tmp, snap>>,
             NEW l \in TaskPC \ {"wait", "off", "start"}, Goto(d, l),
             NEW n \in 1 .. NSources + 1, src' = [src EXCEPT ![d] = n],
             l \in {"acquire", "write", "rename"} => n \in Sources
      PROVE  Limits
  <2>1. QuotaInv' /\ AtSource' /\ src' \in [Docs -> 1 .. NSources + 1]
    BY <1>3, NothingCounted, GoKeeps
  <2>2. QED
    BY <1>2, <1>3, <2>1, NothingCounted DEF Limits
<1>4. ASSUME UNCHANGED <<cons, date, saved, tmp>>, Clear(d)
      PROVE  Limits
  BY <1>2, <1>4, NothingCounted, ClearKeeps DEF Limits
<1>5. CASE Start(d)
  <2>1. src[d] = 1
    BY <1>5 DEF Start, At, WorkerInv, AtSource
  <2>2. UNCHANGED <<cons, date, saved, tmp, snap, src>> /\ \E l \in {"attempt", "acquire"} : Goto(d, l)
    BY <1>5 DEF Start, Proceed, limiter, work
  <2>3. QED
    BY <1>1, <1>3, <2>1, <2>2 DEF TaskPC
<1>6. CASE Acquire(d)
  BY <1>6, AcquireKeeps
<1>7. CASE Waited(d)
  BY <1>7, WaitedKeeps
<1>8. CASE WriteTmp(d)
  <2>1. /\ UNCHANGED <<cons, date, saved, src>> /\ Goto(d, "rename") /\ task[d] = "write"
        /\ tmp' = snap[d] /\ snap' = [snap EXCEPT ![d] = NoSnap]
    BY <1>8 DEF WriteTmp, Proceed, At
  <2>2. src[d] \in Sources
    BY <2>1 DEF WorkerInv, AtSource
  <2>3. QuotaInv' /\ AtSource' /\ src' \in [Docs -> 1 .. NSources + 1]
    BY <1>1, <2>1, <2>2, NothingCounted, GoKeeps DEF TaskPC
  <2>4. saved' \in Counters /\ tmp' \in Counters /\ snap' \in [Docs -> Counters]
    BY <1>2, <2>1
  <2>5. QED
    BY <2>1, <2>3, <2>4, NothingCounted DEF Limits
<1>9. CASE Rename(d)
  <2>1. UNCHANGED <<cons, date>> /\ task[d] = "rename"
    BY <1>9 DEF Rename, At
  <2>2. CASE tmp # NoSnap
    <3>1. /\ saved' = tmp /\ tmp' = NoSnap /\ UNCHANGED snap
          /\ src' = [src EXCEPT ![d] = src[d] + 1]
          /\ Goto(d, IF src[d] < NSources THEN "acquire" ELSE "ask")
      BY <1>1, <1>9, <2>2 DEF Rename, Proceed
    <3>2. src[d] \in Sources
      BY <2>1 DEF WorkerInv, AtSource
    <3>3. src[d] + 1 \in 1 .. NSources + 1 /\ (src[d] < NSources => src[d] + 1 \in Sources)
      BY <1>1, <3>2 DEF Sources
    <3>4. \E l \in {"acquire", "ask"} : Goto(d, l) /\ (l = "acquire" => src[d] + 1 \in Sources)
      BY <3>1, <3>3
    <3>5. QuotaInv' /\ AtSource' /\ src' \in [Docs -> 1 .. NSources + 1]
      BY <2>1, <3>1, <3>3, <3>4, NothingCounted, GoKeeps DEF TaskPC
    <3>6. QED
      BY <1>2, <2>1, <3>1, <3>5, NothingCounted DEF Limits
  <2>3. CASE tmp = NoSnap
    BY <1>4, <1>9, <2>1, <2>3 DEF Rename, Throws, Leave
  <2>4. QED
    BY <2>2, <2>3
<1>10. CASE Ask(d)
  <2>1. UNCHANGED <<cons, date, saved, tmp>>
    BY <1>10 DEF Ask, limiter
  <2>2. CASE Clear(d)
    BY <1>4, <2>1, <2>2
  <2>3. CASE Goto(d, "locate") /\ src' = [src EXCEPT ![d] = 1] /\ UNCHANGED snap
    BY <1>1, <1>3, <2>1, <2>3 DEF TaskPC
  <2>4. QED
    BY <1>10, <2>2, <2>3 DEF Ask, Proceed, Leave
<1>11. CASE Locate(d)
  <2>1. UNCHANGED <<cons, date, saved, tmp>> /\ src[d] <= NSources
    BY <1>11 DEF Locate, limiter
  <2>2. CASE Clear(d)
    BY <1>4, <2>1, <2>2
  <2>3. ASSUME UNCHANGED snap, src' = [src EXCEPT ![d] = src[d] + 1],
               NEW l \in {"locate", "licenses"}, Goto(d, l)
        PROVE  Limits
    <3>1. src[d] + 1 \in 1 .. NSources + 1
      BY <1>1, <2>1
    <3>2. QED
      BY <1>3, <2>1, <2>3, <3>1 DEF TaskPC
  <2>4. \/ Clear(d)
        \/ UNCHANGED snap /\ src' = [src EXCEPT ![d] = src[d] + 1] /\ \E l \in {"locate", "licenses"} : Goto(d, l)
    BY <1>11 DEF Locate, Proceed, Rejects, Throws, Leave
  <2>5. QED
    BY <2>2, <2>3, <2>4
<1>12. CASE UpdateLicenses(d)
  <2>1. UNCHANGED <<cons, date, saved, tmp>>
    BY <1>12 DEF UpdateLicenses, limiter
  <2>2. CASE Clear(d)
    BY <1>4, <2>1, <2>2
  <2>3. CASE Goto(d, "reindex") /\ UNCHANGED <<src, snap>>
    BY <1>1, <1>3, <2>1, <2>3 DEF TaskPC
  <2>4. QED
    BY <1>12, <2>2, <2>3 DEF UpdateLicenses, Proceed, Rejects, Throws, Leave, work
<1>13. CASE TriggerReindex(d)
  <2>1. UNCHANGED <<cons, date, saved, tmp>>
    BY <1>13 DEF TriggerReindex, limiter
  <2>2. CASE Clear(d)
    BY <1>4, <2>1, <2>2
  <2>3. CASE Goto(d, "attempt") /\ UNCHANGED <<src, snap>>
    BY <1>1, <1>3, <2>1, <2>3 DEF TaskPC
  <2>4. QED
    BY <1>13, <2>2, <2>3 DEF TriggerReindex, Proceed, Rejects, Throws, Leave, work
<1>14. CASE InsertAttempt(d)
  BY <1>4, <1>14 DEF InsertAttempt, Throws, Rejects, Leave, limiter
<1>15. QED
  BY <1>5, <1>6, <1>7, <1>8, <1>9, <1>10, <1>11, <1>12, <1>13, <1>14 DEF Step

(* A step of a task keeps the invariant. *)
LEMMA StepKeeps ==
    ASSUME WorkerInv, NEW d \in Docs, Step(d)
    PROVE  WorkerInv'
<1>1. Limits /\ LoopInv' /\ permits' \in Nat /\ UNCHANGED <<batch, day>>
  BY StepLimits, StepLoop, StepCases
<1>2. task' \in [Docs -> TaskPC]
  BY StepCases DEF GoesOn, Ends, Goto, WorkerInv, Types, TaskPC
<1>3. QED
  BY <1>1, <1>2 DEF Limits, WorkerInv, Types

-----------------------------------------------------------------------------
(* The loop. *)

(* The limiter and the tasks stay. *)
LEMMA Apart ==
    ASSUME WorkerInv, UNCHANGED <<task, src, cons, date, saved, tmp, snap, day>>,
           LoopInv', batch' \in SUBSET Docs, permits' \in Nat
    PROVE  WorkerInv'
<1>1. \A s \in Sources : Queued(s)' = Queued(s)
  BY DEF Queued
<1>2. QuotaInv'
  BY <1>1 DEF WorkerInv, QuotaInv
<1>3. Types' /\ AtSource'
  BY DEF WorkerInv, Types, AtSource
<1>4. QED
  BY <1>2, <1>3 DEF WorkerInv

(* The loop starts the task of a document of its batch. *)
LEMMA BeginKeeps ==
    ASSUME WorkerInv, batch # {}, loop \in {"dispatch", "granted"}, Begin,
           permits' = permits + 1 - Held, permits' <= Concurrency,
           UNCHANGED <<src, cons, date, saved, tmp, snap, day, state>>
    PROVE  WorkerInv'
<1>1. PICK d \in batch : /\ batch' = batch \ {d} /\ loop' = "dispatch" /\ Goto(d, "start")
  <2>1. batch \in SUBSET Docs
    BY DEF WorkerInv, Types
  <2>2. \E e \in batch : \A f \in batch : f <= e
    BY <2>1, NewestOne
  <2>3. (CHOOSE e \in batch : \A f \in batch : f <= e) \in batch
    BY <2>2
  <2>4. QED
    BY <2>3 DEF Begin
<1>2. /\ d \in Docs /\ task \in [Docs -> TaskPC] /\ task[d] = "off" /\ src[d] = 1
      /\ permits \in Nat /\ Held \in 0 .. 1 /\ permits = Cardinality(Active) + Held
  BY <1>1 DEF WorkerInv, Types, LoopInv, AtSource, Held
<1>3. /\ task' \in [Docs -> TaskPC] /\ task'[d] = "start"
      /\ \A e \in Docs \ {d} : task'[e] = task[e]
  BY <1>1, <1>2 DEF Goto, TaskPC
<1>4. Active' = Active \cup {d} /\ d \in Docs \ Active /\ Active \in SUBSET Docs
  BY <1>2, <1>3 DEF Active
<1>5. Cardinality(Active') = Cardinality(Active) + 1 /\ Cardinality(Active) \in Nat
  BY <1>4, OneMore, FiniteDocs
<1>6. permits' = Cardinality(Active') + Held' /\ permits' \in Nat
  <2>1. Held' = 0
    BY <1>1 DEF Held
  <2>2. QED
    BY <1>2, <1>5, <2>1
<1>7. LoopInv'
  <2>1. \A e \in batch' : task'[e] = "off"
    BY <1>1, <1>2, <1>3 DEF WorkerInv, LoopInv, Types
  <2>2. state' \notin {"idle", "error"}
    BY DEF WorkerInv, LoopInv
  <2>3. QED
    BY <1>1, <1>6, <2>1, <2>2 DEF LoopInv
<1>8. \A s \in Sources : Queued(s)' = Queued(s)
  BY <1>2, <1>3 DEF Queued
<1>9. QuotaInv'
  BY <1>8 DEF WorkerInv, QuotaInv
<1>10. AtSource'
  BY <1>2, <1>3 DEF WorkerInv, AtSource
<1>11. Types'
  BY <1>1, <1>3, <1>6 DEF WorkerInv, Types
<1>12. QED
  BY <1>7, <1>9, <1>10, <1>11 DEF WorkerInv

(* The other steps of the loop and its owner. *)
LEMMA LoopKeeps ==
    ASSUME WorkerInv, Loop
    PROVE  WorkerInv'
<1>1. /\ permits \in Nat /\ batch \in SUBSET Docs /\ Concurrency \in Nat /\ LoopInv
  BY Sizes DEF WorkerInv, Types
<1>2. CASE Select
  <2>1. /\ UNCHANGED <<task, src, cons, date, saved, tmp, snap, day, permits>> /\ loop = "select"
        /\ Active' = Active
    BY <1>2 DEF Select, limiter, Active
  <2>2. /\ batch' \in SUBSET Docs
        /\ loop' \in {"ended", "idle", "dispatch"}
        /\ state' # state => state' = "error" /\ loop' = "ended"
        /\ loop' = "ended" \/ state' = state
    BY <1>1, <1>2 DEF Select, SelectNextBatch, Newest
  <2>3. Active = {} /\ state \notin {"idle", "error"}
    BY <2>1 DEF WorkerInv, LoopInv
  <2>4. \A e \in batch' : task'[e] = "off"
    BY <2>1, <2>2, <2>3 DEF Active
  <2>5. LoopInv'
    BY <2>1, <2>2, <2>3, <2>4 DEF WorkerInv, LoopInv, Held
  <2>6. QED
    BY <1>1, <2>1, <2>2, <2>5, Apart
<1>3. CASE WakeUp
  <2>1. /\ UNCHANGED <<task, src, cons, date, saved, tmp, snap, day, permits, batch, state>>
        /\ loop = "idle" /\ loop' = "select" /\ Active' = Active
    BY <1>3 DEF WakeUp, limiter, work, Active
  <2>2. LoopInv'
    BY <1>1, <2>1 DEF LoopInv, Held
  <2>3. QED
    BY <1>1, <2>1, <2>2, Apart
<1>4. CASE Dispatch
  <2>1. UNCHANGED <<src, cons, date, saved, tmp, snap, day, state>> /\ loop = "dispatch" /\ Held = 0
    BY <1>4 DEF Dispatch, limiter, work, Held
  <2>2. CASE batch = {} \/ aborted \/ auth
    <3>1. loop' = "join" /\ batch' = {} /\ UNCHANGED <<permits, task>> /\ Active' = Active
      BY <1>4, <2>2 DEF Dispatch, Active
    <3>2. LoopInv'
      BY <1>1, <2>1, <3>1 DEF LoopInv, Held
    <3>3. QED
      BY <1>1, <2>1, <3>1, <3>2, Apart
  <2>3. CASE batch # {} /\ permits < Concurrency /\ Begin /\ permits' = permits + 1
    BY <1>1, <2>1, <2>3, BeginKeeps
  <2>4. CASE batch # {} /\ loop' = "parked" /\ UNCHANGED <<batch, permits, task>>
    <3>1. Active' = Active
      BY <2>4 DEF Active
    <3>2. LoopInv'
      BY <1>1, <2>1, <2>4, <3>1 DEF LoopInv, Held
    <3>3. QED
      BY <1>1, <2>1, <2>4, <3>2, Apart
  <2>5. QED
    BY <1>4, <2>2, <2>3, <2>4 DEF Dispatch
<1>5. CASE Granted
  <2>1. /\ UNCHANGED <<src, cons, date, saved, tmp, snap, day, state, permits>>
        /\ loop = "granted" /\ Begin /\ Held = 1
    BY <1>5 DEF Granted, limiter, work, Held
  <2>2. batch # {} /\ permits' = permits + 1 - Held /\ permits' <= Concurrency
    BY <1>1, <2>1 DEF LoopInv
  <2>3. QED
    BY <2>1, <2>2, BeginKeeps
<1>6. CASE Join
  <2>1. /\ UNCHANGED <<task, src, cons, date, saved, tmp, snap, day, permits, batch>>
        /\ loop = "join" /\ Active = {} /\ Active' = Active /\ loop' \in {"ended", "select"}
        /\ state' = state \/ loop' = "ended"
    BY <1>6 DEF Join, limiter, work, Active
  <2>2. LoopInv'
    BY <1>1, <2>1 DEF LoopInv, Held
  <2>3. QED
    BY <1>1, <2>1, <2>2, Apart
<1>7. CASE Stopped
  <2>1. /\ UNCHANGED <<task, src, cons, date, saved, tmp, snap, day, permits, batch, loop>>
        /\ loop = "ended" /\ Active' = Active
    BY <1>7 DEF Stopped, limiter, work, Active
  <2>2. LoopInv'
    BY <1>1, <2>1 DEF LoopInv, Held
  <2>3. QED
    BY <1>1, <2>1, <2>2, Apart
<1>8. CASE Restart
  <2>1. /\ UNCHANGED <<task, src, saved, tmp, snap, day, permits, batch>>
        /\ loop = "down" /\ loop' = "select" /\ state' = "running" /\ Active' = Active
        /\ date' = [s \in Sources |-> day]
        /\ cons' = [s \in Sources |-> IF saved[s][1] = day THEN saved[s][2] ELSE 0]
    BY <1>8 DEF Restart, work, Active
  <2>2. LoopInv'
    BY <1>1, <2>1 DEF LoopInv, Held
  <2>3. \A s \in Sources : cons'[s] \in 0 .. Bound
    BY <2>1, Sizes DEF WorkerInv, Types, Counters
  <2>4. Active = {}
    BY <1>1, <2>1 DEF LoopInv
  <2>5. \A s \in Sources : Cardinality(Queued(s)') = 0
    <3>1. \A s \in Sources : Queued(s)' = {}
      BY <2>1, <2>4 DEF Queued, Active
    <3>2. QED
      BY <3>1, FS_EmptySet
  <2>6. QuotaInv'
    BY <2>3, <2>5, Sizes DEF QuotaInv
  <2>7. cons' \in [Sources -> Nat] /\ date' \in [Sources -> 1 .. MaxDays]
    BY <2>1, <2>3, Sizes DEF WorkerInv, Types
  <2>8. QED
    BY <2>1, <2>2, <2>6, <2>7 DEF WorkerInv, Types, AtSource
<1>9. QED
  BY <1>2, <1>3, <1>4, <1>5, <1>6, <1>7, <1>8 DEF Loop

-----------------------------------------------------------------------------
(* The command, the crash, the calendar and the pipeline. *)

LEMMA RestKeeps ==
    ASSUME WorkerInv, Stop \/ Midnight \/ \E d \in Docs : Pipeline(d)
    PROVE  WorkerInv'
<1>1. /\ UNCHANGED <<task, src, cons, date, saved, tmp, snap, permits, batch, loop>>
      /\ day' \in 1 .. MaxDays /\ (state' = state \/ state' = "stopping")
  BY Sizes DEF Stop, Midnight, Pipeline, rows, limiter, runner, work, WorkerInv, Types
<1>2. LoopInv'
  <2>1. Active' = Active
    BY <1>1 DEF Active
  <2>2. QED
    BY <1>1, <2>1 DEF WorkerInv, LoopInv, Held
<1>3. \A s \in Sources : Queued(s)' = Queued(s)
  BY <1>1 DEF Queued
<1>4. QuotaInv'
  BY <1>1, <1>3 DEF WorkerInv, QuotaInv
<1>5. QED
  BY <1>1, <1>2, <1>4 DEF WorkerInv, Types, AtSource

(* A process that died: no task, no permit; a new one has them to give. *)
LEMMA AllOff ==
    ASSUME task' = [d \in Docs |-> "off"]
    PROVE  Cardinality(Active') = 0 /\ Active' = {} /\ \A s \in Sources : Cardinality(Queued(s)') = 0
<1>1. Active' = {} /\ \A s \in Sources : Queued(s)' = {}
  BY DEF Active, Queued
<1>2. QED
  BY <1>1, FS_EmptySet

(* A crash, and the counters that are read at the next start. *)
LEMMA CrashKeeps ==
    ASSUME WorkerInv, Crash
    PROVE  WorkerInv'
<1>1. /\ loop' = "down" /\ batch' = {} /\ permits' = 0
      /\ task' = [d \in Docs |-> "off"] /\ src' = [d \in Docs |-> 1]
      /\ snap' = [d \in Docs |-> NoSnap]
      /\ UNCHANGED <<cons, date, saved, tmp, day>>
  BY DEF Crash, limiter
<1>2. LoopInv'
  BY <1>1, AllOff, Sizes DEF LoopInv, Held
<1>3. QuotaInv'
  <2>1. \A s \in Sources : /\ cons'[s] = cons[s] /\ cons[s] \in Nat
                           /\ Cardinality(Queued(s)) \in Nat
                           /\ cons[s] + Cardinality(Queued(s)) <= Bound
    BY <1>1, QueueTypes DEF WorkerInv, Types, QuotaInv
  <2>2. QED
    BY <1>1, <2>1, AllOff, Sizes DEF QuotaInv
<1>4. Types' /\ AtSource'
  <2>1. "off" \in TaskPC /\ 1 \in 1 .. NSources + 1 /\ NoSnap \in Counters
    BY Sizes DEF TaskPC
  <2>2. QED
    BY <1>1, <2>1 DEF WorkerInv, Types, AtSource
<1>5. QED
  BY <1>2, <1>3, <1>4 DEF WorkerInv

(* Every step keeps the invariant. *)
LEMMA NextKeeps ==
    ASSUME WorkerInv, [Next]_vars
    PROVE  WorkerInv'
<1>1. CASE UNCHANGED vars
  <2>1. /\ UNCHANGED <<task, src, cons, date, saved, tmp, snap, day, permits, batch, loop, state>>
    BY <1>1 DEF vars, rows, limiter, runner, work
  <2>2. Active' = Active
    BY <2>1 DEF Active
  <2>3. LoopInv'
    BY <2>1, <2>2 DEF WorkerInv, LoopInv, Held
  <2>4. batch' \in SUBSET Docs /\ permits' \in Nat
    BY <2>1 DEF WorkerInv, Types
  <2>5. QED
    BY <2>1, <2>3, <2>4, Apart
<1>2. CASE Loop
  BY <1>2, LoopKeeps
<1>3. CASE Crash
  BY <1>3, CrashKeeps
<1>4. CASE Stop \/ Midnight \/ \E d \in Docs : Pipeline(d)
  BY <1>4, RestKeeps
<1>5. CASE \E d \in Docs : Step(d)
  BY <1>5, StepKeeps
<1>6. QED
  BY <1>1, <1>2, <1>3, <1>4, <1>5 DEF Next

(* The invariant holds at the start. *)
LEMMA InitKeeps ==
    ASSUME Init
    PROVE  WorkerInv
<1>1. /\ task = [d \in Docs |-> "off"] /\ src = [d \in Docs |-> 1] /\ snap = [d \in Docs |-> NoSnap]
      /\ day = 1 /\ cons = [s \in Sources |-> 0] /\ date = [s \in Sources |-> 1]
      /\ saved = NoSnap /\ tmp = NoSnap
      /\ loop = "select" /\ batch = {} /\ state = "running" /\ permits = 0
  BY DEF Init
<1>2. Active = {} /\ \A s \in Sources : Queued(s) = {}
  BY <1>1 DEF Active, Queued
<1>3. LoopInv /\ QuotaInv
  BY <1>1, <1>2, FS_EmptySet, Sizes DEF LoopInv, Held, QuotaInv
<1>4. Types /\ AtSource
  <2>1. "off" \in TaskPC /\ 1 \in 1 .. NSources + 1 /\ NoSnap \in Counters /\ 1 \in 1 .. MaxDays
    BY Sizes DEF TaskPC
  <2>2. QED
    BY <1>1, <2>1 DEF Types, AtSource
<1>5. QED
  BY <1>3, <1>4 DEF WorkerInv

-----------------------------------------------------------------------------
(***************************************************************************)
(* The counter of a source never exceeds its quota by more than the        *)
(* requests that can be checked before one of them is counted, one for     *)
(* each task but one, whatever is saved, lost or restarted in between      *)
(* (rate-limiter.ts, acquire).                                             *)
(***************************************************************************)
THEOREM QuotaHolds == Spec => []QuotaKept
<1>1. WorkerInv => QuotaKept
  <2> SUFFICES ASSUME WorkerInv, NEW s \in Sources
               PROVE  cons[s] <= Bound
    BY DEF QuotaKept, Bound
  <2>1. /\ cons[s] \in Nat /\ Cardinality(Queued(s)) \in Nat
        /\ cons[s] + Cardinality(Queued(s)) <= Bound
    BY QueueTypes DEF WorkerInv, Types, QuotaInv
  <2>2. QED
    BY <2>1, Sizes
<1>2. QED
  BY <1>1, InitKeeps, NextKeeps, PTL DEF Spec

(***************************************************************************)
(* A worker that says it is stopped, or that it ended in error, has no     *)
(* document in hand (EnrichmentRunner.ts, stop).                           *)
(***************************************************************************)
THEOREM StopIsQuiet == Spec => []StoppedQuiet
<1>1. WorkerInv => StoppedQuiet
  BY DEF WorkerInv, LoopInv, StoppedQuiet
<1>2. QED
  BY <1>1, InitKeeps, NextKeeps, PTL DEF Spec

-----------------------------------------------------------------------------
(* The inductive invariant of the embed service. *)

Stage == {"new", "get", "pool", "openrouter", "set", "done", "failed"}

SubBatch == [at : {"select", "call", "sleep", "done", "failed"}, url : Urls \cup {Miss},
             id : 0 .. MaxAdds, attempt : 0 .. MaxRetries + 1]

Backends ==
    /\ reg \subseteq Urls /\ nextId \in 1 .. MaxAdds + 1
    /\ id \in [Urls -> 0 .. MaxAdds] /\ \A u \in Urls : id[u] < nextId
    /\ healthy \in [Urls -> BOOLEAN] /\ fails \in [Urls -> 0 .. 2]
    /\ inFlight \in [Urls -> 0 .. MaxConcurrency]

(* A sub-batch that waits for a backend or for its reply has an attempt left,
   and a call is one of a registration that was made. *)
Batches ==
    /\ DOMAIN sub = Requests
    /\ \A r \in Requests : \A k \in DOMAIN sub[r] :
         /\ sub[r][k] \in SubBatch
         /\ sub[r][k].at \in {"select", "call"} => sub[r][k].attempt <= MaxRetries
         /\ sub[r][k].at = "call" => sub[r][k].url \in Urls /\ sub[r][k].id < nextId

(* What a request has got for a text is the vector of that text, or none. *)
Right(r, j) == part[r][j] = Asked[r][Missed(cached[r])[j]]

Hit(r) ==
    /\ DOMAIN cached[r] = DOMAIN Asked[r] /\ DOMAIN part[r] = DOMAIN Missed(cached[r])
    /\ \A i \in DOMAIN Asked[r] : cached[r][i] \in {Asked[r][i], Miss}

(* The positions of a sub-batch are filled when it is done. *)
Partial(r) ==
    \A k \in DOMAIN sub[r] : sub[r][k].at = "done" =>
        \A j \in DOMAIN part[r] : j \in From(k) .. To(k, Len(Missed(cached[r]))) => Right(r, j)

OnTime(r) ==
    /\ pc[r] \in {"new", "get", "openrouter"} => DOMAIN sub[r] = {}
    /\ pc[r] = "pool" => DOMAIN sub[r] = DOMAIN Subs(Len(Missed(cached[r])))
    /\ pc[r] = "set" => \A j \in DOMAIN part[r] : Right(r, j)
    /\ pc[r] = "done" => answer[r] = Asked[r]

WellServed(r) ==
    /\ pc[r] \notin {"new", "get"} => Hit(r) /\ Partial(r)
    /\ OnTime(r)

ServedInv ==
    /\ cache \in [Texts -> Texts \cup {Miss}] /\ \A t \in Texts : cache[t] \in {t, Miss}
    /\ pc \in [Requests -> Stage]
    /\ DOMAIN cached = Requests /\ DOMAIN part = Requests /\ DOMAIN answer = Requests
    /\ \A r \in Requests : WellServed(r)

(* No call is counted twice or for a registration to come. *)
SlotsInv ==
    /\ \A u \in Urls : \A n \in 0 .. MaxAdds : IsFiniteSet(Calls(u, n))
    /\ SlotsAccounted

EmbedInv == Backends /\ Batches /\ ServedInv /\ SlotsInv

-----------------------------------------------------------------------------
(* The missed texts and the sub-batches. *)

(* A request has the positions of a sequence. *)
LEMMA AskedAt ==
    ASSUME NEW r \in Requests
    PROVE  /\ IsFiniteSet(DOMAIN Asked[r]) /\ DOMAIN Asked[r] \subseteq Nat
           /\ \A i \in DOMAIN Asked[r] : Asked[r][i] \in Texts
<1>1. Asked[r] \in Seq(Texts)
  BY EmbedAssumption
<1>2. Len(Asked[r]) \in Nat /\ DOMAIN Asked[r] = 1 .. Len(Asked[r])
  BY <1>1
<1>3. IsFiniteSet(1 .. Len(Asked[r]))
  BY <1>2, FS_Interval
<1>4. QED
  BY <1>1, <1>2, <1>3

(* The missed positions are as many as the texts that are sent. *)
LEMMA MissedSize ==
    ASSUME NEW c, IsFiniteSet(DOMAIN c)
    PROVE  /\ IsFiniteSet(MissedAt(c)) /\ Cardinality(MissedAt(c)) \in Nat
           /\ Len(Missed(c)) = Cardinality(MissedAt(c))
           /\ DOMAIN Missed(c) = 1 .. Len(Missed(c))
<1>1. IsFiniteSet(MissedAt(c)) /\ Cardinality(MissedAt(c)) \in Nat
  BY FS_Subset, FS_CardinalityType DEF MissedAt
<1> DEFINE n == Cardinality(MissedAt(c))
           S == {Missed(c)[j] : j \in 1 .. n}
<1>2. Missed(c) = [j \in 1 .. n |-> Missed(c)[j]]
  BY DEF Missed
<1>3. Missed(c) \in [1 .. n -> S]
  BY <1>2
<1>4. Missed(c) \in Seq(S) /\ Len(Missed(c)) = n
  <2> HIDE DEF S
  <2>1. n \in Nat
    BY <1>1
  <2> HIDE DEF n
  <2>2. QED
    BY <1>3, <2>1
<1>5. QED
  BY <1>1, <1>2, <1>4 DEF Missed

(* Every missed position is one of them, at its rank. *)
LEMMA MissedRank ==
    ASSUME NEW c, IsFiniteSet(DOMAIN c), DOMAIN c \subseteq Nat, NEW i \in MissedAt(c)
    PROVE  Rank(c, i) \in DOMAIN Missed(c) /\ Missed(c)[Rank(c, i)] = i
<1> DEFINE Up(x) == {k \in MissedAt(c) : k <= x}
<1>1. IsFiniteSet(MissedAt(c)) /\ MissedAt(c) \subseteq Nat
  BY FS_Subset DEF MissedAt
<1>2. \A x \in MissedAt(c) : /\ IsFiniteSet(Up(x)) /\ Cardinality(Up(x)) \in Nat
                             /\ Cardinality(Up(x)) <= Cardinality(MissedAt(c))
  <2>1. \A x \in MissedAt(c) : Up(x) \subseteq MissedAt(c)
    OBVIOUS
  <2>2. QED
    BY <1>1, <2>1, FS_Subset, FS_CardinalityType
<1>3. Rank(c, i) \in 1 .. Cardinality(MissedAt(c))
  <2>1. i \in Up(i)
    BY <1>1
  <2>2. Cardinality(Up(i)) # 0
    BY <1>2, <2>1, FS_EmptySet
  <2>3. Cardinality(MissedAt(c)) \in Nat
    BY <1>1, FS_CardinalityType
  <2>4. QED
    BY <1>2, <2>2, <2>3 DEF Rank
<1>4. \A x, y \in MissedAt(c) : x < y => Rank(c, x) # Rank(c, y)
  <2> SUFFICES ASSUME NEW x \in MissedAt(c), NEW y \in MissedAt(c), x < y
               PROVE  Rank(c, x) # Rank(c, y)
    OBVIOUS
  <2>1. Up(x) \subseteq Up(y) /\ y \in Up(y) /\ y \notin Up(x)
    BY <1>1
  <2>2. Cardinality(Up(x)) # Cardinality(Up(y))
    BY <1>2, <2>1, FS_Subset
  <2>3. QED
    BY <2>2 DEF Rank
<1>5. \A x \in MissedAt(c) : Rank(c, x) = Rank(c, i) => x = i
  <2> SUFFICES ASSUME NEW x \in MissedAt(c), Rank(c, x) = Rank(c, i), x # i
               PROVE  FALSE
    OBVIOUS
  <2>1. x < i \/ i < x
    BY <1>1
  <2>2. QED
    BY <1>4, <2>1
<1>6. QED
  BY <1>3, <1>5 DEF Missed

(* Every position is in a sub-batch. *)
LEMMA SubOf ==
    ASSUME NEW n \in Nat, NEW j \in 1 .. n
    PROVE  \E k \in DOMAIN Subs(n) : j \in From(k) .. To(k, n)
<1> DEFINE Reach == {k \in Nat : k * MaxBatch >= j}
<1>1. MaxBatch \in Nat \ {0}
  BY EmbedAssumption
<1>2. j * MaxBatch >= j
  BY <1>1
<1>3. j \in Reach
  BY <1>2
<1> DEFINE R == {p \in Nat \X Nat : p[1] < p[2]}
<1>4. PICK k \in Reach : \A x \in Reach : ~(<<x, k>> \in R)
  <2>1. IsWellFoundedOn(R, Nat)
    BY NatLessThanWellFounded DEF OpToRel
  <2>2. Reach # {} /\ Reach \subseteq Nat
    BY <1>3
  <2> HIDE DEF R, Reach
  <2>3. QED
    BY <2>1, <2>2, WFMin
<1>5. \A x \in Reach : k <= x
  <2> SUFFICES ASSUME NEW x \in Reach
               PROVE  k <= x
    OBVIOUS
  <2>1. x \in Nat /\ k \in Nat /\ ~(<<x, k>> \in R)
    BY <1>4
  <2> HIDE DEF Reach
  <2>2. ~(x < k)
    BY <2>1
  <2>3. QED
    BY <2>1, <2>2
<1>6. k \in Nat /\ k * MaxBatch >= j
  OBVIOUS
<1>7. k # 0
  BY <1>1, <1>6
<1>8. k - 1 \in Nat /\ (k - 1) * MaxBatch < j
  <2>1. k - 1 \in Nat /\ k - 1 \notin Reach
    BY <1>5, <1>6, <1>7
  <2>2. (k - 1) * MaxBatch \in Nat
    BY <1>1, <2>1
  <2>3. QED
    BY <2>1, <2>2
<1>9. k <= j
  BY <1>3, <1>5
<1>10. From(k) \in Nat /\ From(k) <= j /\ k \in 1 .. n
  <2>1. (k - 1) * MaxBatch \in Nat
    BY <1>1, <1>8
  <2>2. QED
    BY <1>6, <1>7, <1>8, <1>9, <2>1 DEF From
<1>11. k \in DOMAIN Subs(n)
  BY <1>10 DEF Subs
<1>12. j <= To(k, n) /\ To(k, n) \in Nat
  <2>1. k * MaxBatch \in Nat
    BY <1>1, <1>6
  <2>2. QED
    BY <1>6, <2>1 DEF To
<1>13. QED
  BY <1>10, <1>11, <1>12

-----------------------------------------------------------------------------
(* The calls in flight. *)

OnCall(r, k, u, n) ==
    /\ r \in Requests /\ k \in DOMAIN sub[r]
    /\ sub[r][k].at = "call" /\ sub[r][k].url = u /\ sub[r][k].id = n

(* A call is the pair of a request and a sub-batch, before and after a step. *)
LEMMA InCalls ==
    ASSUME NEW u, NEW n
    PROVE  /\ \A r, k : <<r, k>> \in Calls(u, n) <=> OnCall(r, k, u, n)
           /\ \A x \in Calls(u, n) : \E r, k : x = <<r, k>>
           /\ \A r, k : <<r, k>> \in Calls(u, n)' <=> OnCall(r, k, u, n)'
           /\ \A x \in Calls(u, n)' : \E r, k : x = <<r, k>>
BY DEF Calls, OnCall

(* Where no call begins or ends the calls are the same. *)
LEMMA CallsSame ==
    ASSUME NEW u, NEW n, \A r, k : OnCall(r, k, u, n)' <=> OnCall(r, k, u, n)
    PROVE  Calls(u, n)' = Calls(u, n)
BY InCalls

(* What one sub-batch becomes leaves the others alone. *)
LEMMA OneSub ==
    ASSUME Batches, NEW r \in Requests, NEW k \in DOMAIN sub[r], NEW s, Sub(r, k, s)
    PROVE  /\ DOMAIN sub' = Requests /\ DOMAIN sub'[r] = DOMAIN sub[r] /\ sub'[r][k] = s
           /\ \A q \in Requests \ {r} : sub'[q] = sub[q]
           /\ \A j \in DOMAIN sub[r] \ {k} : sub'[r][j] = sub[r][j]
BY DEF Batches, Sub

(* A call ends. *)
LEMMA CallGone ==
    ASSUME Batches, NEW r \in Requests, NEW k \in DOMAIN sub[r], NEW s, Sub(r, k, s), s.at # "call",
           NEW u, NEW n
    PROVE  Calls(u, n)' = Calls(u, n) \ {<<r, k>>}
<1>1. \A q, j : OnCall(q, j, u, n)' <=> OnCall(q, j, u, n) /\ <<q, j>> # <<r, k>>
  BY OneSub DEF OnCall
<1>2. QED
  BY <1>1, InCalls

(* A call begins. *)
LEMMA CallMade ==
    ASSUME Batches, NEW r \in Requests, NEW k \in DOMAIN sub[r], NEW s, Sub(r, k, s),
           s.at = "call", sub[r][k].at # "call", NEW u, NEW n
    PROVE  /\ <<r, k>> \notin Calls(u, n)
           /\ s.url = u /\ s.id = n => Calls(u, n)' = Calls(u, n) \cup {<<r, k>>}
           /\ s.url # u \/ s.id # n => Calls(u, n)' = Calls(u, n)
<1>1. <<r, k>> \notin Calls(u, n)
  BY InCalls DEF OnCall
<1>2. ASSUME s.url = u, s.id = n
      PROVE  Calls(u, n)' = Calls(u, n) \cup {<<r, k>>}
  <2>1. \A q, j : OnCall(q, j, u, n)' <=> OnCall(q, j, u, n) \/ <<q, j>> = <<r, k>>
    BY <1>2, OneSub DEF OnCall
  <2>2. QED
    BY <2>1, InCalls
<1>3. ASSUME s.url # u \/ s.id # n
      PROVE  Calls(u, n)' = Calls(u, n)
  <2>1. \A q, j : OnCall(q, j, u, n)' <=> OnCall(q, j, u, n)
    BY <1>3, OneSub DEF OnCall
  <2>2. QED
    BY <2>1, CallsSame
<1>4. QED
  BY <1>1, <1>2, <1>3

(* Without a new call, a new count or another registration the slots are accounted. *)
LEMMA SlotsStay ==
    ASSUME SlotsInv, Backends, \A u \in Urls : \A n \in 0 .. MaxAdds : Calls(u, n)' = Calls(u, n),
           UNCHANGED <<reg, id, inFlight>>
    PROVE  SlotsInv'
BY DEF SlotsInv, SlotsAccounted, Backends

-----------------------------------------------------------------------------
(* The requests. *)

(* The service begins without requests and backends. *)
LEMMA EmbedStart == EmbedInit => EmbedInv
<1> SUFFICES ASSUME EmbedInit
             PROVE  EmbedInv
  OBVIOUS
<1>1. Backends
  BY EmbedAssumption DEF EmbedInit, Backends
<1>2. Batches
  BY DEF EmbedInit, Batches
<1>3. ServedInv
  BY DEF EmbedInit, ServedInv, WellServed, OnTime, Stage
<1>4. SlotsInv
  <2>1. \A u, n : Calls(u, n) = {}
    BY DEF Calls, EmbedInit
  <2>2. QED
    BY <2>1, FS_EmptySet DEF SlotsInv, SlotsAccounted, EmbedInit
<1>5. QED
  BY <1>1, <1>2, <1>3, <1>4 DEF EmbedInv

(* A step that serves one request leaves the others as they are. *)
LEMMA OneServed ==
    ASSUME ServedInv, NEW r \in Requests, WellServed(r)',
           cache' \in [Texts -> Texts \cup {Miss}], \A t \in Texts : cache'[t] \in {t, Miss},
           pc' \in [Requests -> Stage], DOMAIN cached' = Requests, DOMAIN part' = Requests, DOMAIN answer' = Requests,
           \A q \in Requests \ {r} :
               UNCHANGED <<pc[q], cached[q], part[q], sub[q], answer[q]>>
    PROVE  ServedInv'
<1>1. ASSUME NEW q \in Requests \ {r}
      PROVE  WellServed(q)'
  <2>1. WellServed(q)
    BY <1>1 DEF ServedInv
  <2>2. pc'[q] = pc[q] /\ cached'[q] = cached[q] /\ part'[q] = part[q] /\ sub'[q] = sub[q] /\ answer'[q] = answer[q]
    BY <1>1
  <2>3. QED
    BY <2>1, <2>2 DEF WellServed, Hit, Partial, Right, OnTime
<1>2. QED
  BY <1>1 DEF ServedInv

(* A request comes in. *)
LEMMA ReceiveKeeps == ASSUME EmbedInv, NEW r \in Requests, Receive(r) PROVE EmbedInv'
<1>1. pc[r] = "new" /\ pc' = [pc EXCEPT ![r] = "get"]
      /\ UNCHANGED <<cache, cached, part, sub, answer, nextId, id, reg, healthy, fails, inFlight>>
  BY DEF Receive, Enter, pool
<1>2. Backends' /\ Batches'
  BY <1>1 DEF EmbedInv, Backends, Batches
<1>3. pc'[r] = "get" /\ DOMAIN sub[r] = {}
  BY <1>1 DEF EmbedInv, ServedInv, WellServed, OnTime
<1>4. WellServed(r)'
  BY <1>1, <1>3 DEF WellServed, OnTime
<1>5. ServedInv'
  BY <1>1, <1>4, OneServed DEF EmbedInv, ServedInv, Stage
<1>6. SlotsInv'
  BY <1>1, SlotsStay DEF EmbedInv, Calls
<1>7. QED
  BY <1>2, <1>5, <1>6 DEF EmbedInv

(* The cache answers: what it has is the vector of the text asked for, and the rest
   goes where Route says. *)
LEMMA LookupKeeps == ASSUME EmbedInv, NEW r \in Requests, Lookup(r) PROVE EmbedInv'
<1> DEFINE C(h) == [i \in DOMAIN Asked[r] |-> IF i \in h THEN cache[Asked[r][i]] ELSE Miss]
<1>1. PICK h \in Hits(r) :
         LET c == C(h)
             n == Len(Missed(c))
         IN /\ cached' = [cached EXCEPT ![r] = c]
            /\ part' = [part EXCEPT ![r] = [j \in 1 .. n |-> Miss]]
            /\ sub' = [sub EXCEPT ![r] = IF Route(r) = "pool" THEN Subs(n) ELSE <<>>]
            /\ IF n = 0 THEN Enter(r, "done") /\ answer' = [answer EXCEPT ![r] = c]
               ELSE Enter(r, Route(r)) /\ UNCHANGED answer
  BY DEF Lookup
<1> DEFINE c == C(h)
           n == Len(Missed(c))
<1>2. pc[r] = "get" /\ UNCHANGED <<cache, nextId, id, reg, healthy, fails, inFlight>>
  BY DEF Lookup, pool
<1>3. DOMAIN c = DOMAIN Asked[r] /\ \A i \in DOMAIN Asked[r] : c[i] \in {Asked[r][i], Miss}
  BY AskedAt DEF EmbedInv, ServedInv
<1>4. /\ IsFiniteSet(MissedAt(c)) /\ Cardinality(MissedAt(c)) = n /\ n \in Nat
      /\ DOMAIN Missed(c) = 1 .. n
  BY <1>3, AskedAt, MissedSize
<1>5. Route(r) \in {"pool", "failed", "openrouter"}
  BY DEF Route
<1>6. n = 0 => c = Asked[r]
  <2>1. n = 0 => MissedAt(c) = {}
    BY <1>4, FS_EmptySet
  <2>2. n = 0 => \A i \in DOMAIN Asked[r] : c[i] = Asked[r][i]
    BY <1>3, <2>1 DEF MissedAt
  <2>3. Asked[r] \in Seq(Texts)
    BY EmbedAssumption
  <2>4. Asked[r] = [i \in DOMAIN Asked[r] |-> Asked[r][i]]
    BY <2>3
  <2>5. QED
    BY <2>2, <2>4
<1> HIDE DEF c
<1>7. /\ cached' = [cached EXCEPT ![r] = c]
      /\ part' = [part EXCEPT ![r] = [j \in 1 .. n |-> Miss]]
      /\ sub' = [sub EXCEPT ![r] = IF Route(r) = "pool" THEN Subs(n) ELSE <<>>]
      /\ pc' = [pc EXCEPT ![r] = IF n = 0 THEN "done" ELSE Route(r)]
      /\ IF n = 0 THEN answer' = [answer EXCEPT ![r] = c] ELSE answer' = answer
  BY <1>1 DEF c, Enter
<1> HIDE DEF n
<1>8. /\ pc' \in [Requests -> Stage] /\ DOMAIN cached' = Requests /\ DOMAIN part' = Requests /\ DOMAIN sub' = Requests
      /\ DOMAIN answer' = Requests
      /\ \A q \in Requests \ {r} : UNCHANGED <<pc[q], cached[q], part[q], sub[q], answer[q]>>
      /\ cached'[r] = c /\ part'[r] = [j \in 1 .. n |-> Miss]
      /\ sub'[r] = IF Route(r) = "pool" THEN Subs(n) ELSE <<>>
      /\ pc'[r] = IF n = 0 THEN "done" ELSE Route(r)
      /\ n = 0 => answer'[r] = c
  BY <1>5, <1>7 DEF EmbedInv, ServedInv, Batches, Stage
<1>9. \A k \in DOMAIN Subs(n) : /\ Subs(n)[k] \in SubBatch /\ Subs(n)[k].at = "select"
                                /\ Subs(n)[k].attempt <= MaxRetries
  BY EmbedAssumption DEF Subs, SubBatch, None
<1>10. \A k \in DOMAIN sub'[r] : /\ sub'[r][k] \in SubBatch /\ sub'[r][k].at = "select"
                                 /\ sub'[r][k].attempt <= MaxRetries
  BY <1>8, <1>9
<1>11. Backends'
  BY <1>2 DEF EmbedInv, Backends
<1>12. Batches'
  BY <1>2, <1>8, <1>10 DEF EmbedInv, Batches
<1>13. WellServed(r)'
  <2>1. Hit(r)'
    BY <1>3, <1>4, <1>8 DEF Hit, n
  <2>2. Partial(r)'
    BY <1>10 DEF Partial
  <2>3. OnTime(r)'
    <3>1. pc'[r] \in {"new", "get", "openrouter"} => DOMAIN sub'[r] = {}
      BY <1>5, <1>8
    <3>2. pc'[r] = "pool" => DOMAIN sub'[r] = DOMAIN Subs(Len(Missed(cached'[r])))
      BY <1>5, <1>8 DEF n
    <3>3. pc'[r] # "set" /\ (pc'[r] = "done" => answer'[r] = Asked[r])
      BY <1>5, <1>6, <1>8
    <3>4. QED
      BY <3>1, <3>2, <3>3 DEF OnTime
  <2>4. QED
    BY <1>5, <1>8, <2>1, <2>2, <2>3 DEF WellServed
<1>14. ServedInv'
  <2>1. cache' \in [Texts -> Texts \cup {Miss}] /\ \A t \in Texts : cache'[t] \in {t, Miss}
    BY <1>2 DEF EmbedInv, ServedInv
  <2>2. QED
    BY <1>8, <1>13, <2>1, OneServed DEF EmbedInv
<1>15. SlotsInv'
  <2>1. DOMAIN sub[r] = {}
    BY <1>2 DEF EmbedInv, ServedInv, WellServed, OnTime
  <2>2. \A q, k, u, m : OnCall(q, k, u, m)' <=> OnCall(q, k, u, m)
    BY <1>8, <1>10, <2>1 DEF OnCall
  <2>3. \A u \in Urls : \A m \in 0 .. MaxAdds : Calls(u, m)' = Calls(u, m)
    BY <2>2, CallsSame
  <2>4. QED
    BY <1>2, <2>3, SlotsStay DEF EmbedInv
<1>16. QED
  BY <1>11, <1>12, <1>14, <1>15 DEF EmbedInv

(* OpenRouter answers for all the missed texts or for none. *)
LEMMA OpenRouterKeeps == ASSUME EmbedInv, NEW r \in Requests, OpenRouter(r) PROVE EmbedInv'
<1>1. /\ pc[r] = "openrouter"
      /\ UNCHANGED <<cache, cached, sub, answer, nextId, id, reg, healthy, fails, inFlight>>
      /\ \/ /\ part' = [part EXCEPT ![r] = [j \in DOMAIN @ |-> Asked[r][Missed(cached[r])[j]]]]
            /\ pc' = [pc EXCEPT ![r] = "set"]
         \/ part' = part /\ pc' = [pc EXCEPT ![r] = "failed"]
  BY DEF OpenRouter, Enter, pool
<1>2. Hit(r) /\ DOMAIN sub[r] = {}
  BY <1>1 DEF EmbedInv, ServedInv, WellServed, OnTime
<1>3. /\ pc' \in [Requests -> Stage] /\ DOMAIN part' = Requests /\ DOMAIN part'[r] = DOMAIN part[r]
      /\ \A q \in Requests \ {r} : UNCHANGED <<pc[q], part[q]>>
      /\ \/ pc'[r] = "failed"
         \/ pc'[r] = "set" /\ \A j \in DOMAIN part'[r] : part'[r][j] = Asked[r][Missed(cached[r])[j]]
  BY <1>1 DEF EmbedInv, ServedInv, Stage
<1>4. WellServed(r)'
  BY <1>1, <1>2, <1>3 DEF WellServed, Hit, Partial, OnTime, Right
<1>5. ServedInv'
  BY <1>1, <1>3, <1>4, OneServed DEF EmbedInv, ServedInv
<1>6. Backends' /\ Batches'
  BY <1>1 DEF EmbedInv, Backends, Batches
<1>7. SlotsInv'
  BY <1>1, SlotsStay DEF EmbedInv, Calls
<1>8. QED
  BY <1>5, <1>6, <1>7 DEF EmbedInv

(* When all sub-batches are done every missed text has its vector. *)
LEMMA PoolDoneKeeps == ASSUME EmbedInv, NEW r \in Requests, PoolDone(r) PROVE EmbedInv'
<1>1. /\ pc[r] = "pool" /\ \A k \in DOMAIN sub[r] : sub[r][k].at = "done"
      /\ pc' = [pc EXCEPT ![r] = "set"]
      /\ UNCHANGED <<cache, cached, part, sub, answer, nextId, id, reg, healthy, fails, inFlight>>
  BY DEF PoolDone, Enter, pool
<1>2. Hit(r) /\ Partial(r) /\ DOMAIN sub[r] = DOMAIN Subs(Len(Missed(cached[r])))
  BY <1>1 DEF EmbedInv, ServedInv, WellServed, OnTime
<1>3. ASSUME NEW j \in DOMAIN part[r]
      PROVE  Right(r, j)
  <2> DEFINE n == Len(Missed(cached[r]))
  <2>1. n \in Nat /\ j \in 1 .. n
    BY <1>2, AskedAt, MissedSize DEF Hit
  <2>2. PICK k \in DOMAIN Subs(n) : j \in From(k) .. To(k, n)
    BY <2>1, SubOf
  <2>3. QED
    BY <1>1, <1>2, <2>2 DEF Partial
<1>4. WellServed(r)'
  <2>1. pc'[r] = "set"
    BY <1>1 DEF EmbedInv, ServedInv
  <2>2. QED
    BY <1>1, <1>2, <1>3, <2>1 DEF WellServed, Hit, Partial, OnTime, Right
<1>5. ServedInv'
  BY <1>1, <1>4, OneServed DEF EmbedInv, ServedInv, Stage
<1>6. Backends' /\ Batches'
  BY <1>1 DEF EmbedInv, Backends, Batches
<1>7. SlotsInv'
  BY <1>1, SlotsStay DEF EmbedInv, Calls
<1>8. QED
  BY <1>5, <1>6, <1>7 DEF EmbedInv

(* The hits and the vectors of the provider together are the vectors of the
   texts, in their order. *)
LEMMA Merged ==
    ASSUME NEW r \in Requests, Hit(r), \A j \in DOMAIN part[r] : Right(r, j)
    PROVE  Merge(r) = Asked[r]
<1> DEFINE m == Missed(cached[r])
<1>1. ASSUME NEW i \in DOMAIN Asked[r]
      PROVE  Merge(r)[i] = Asked[r][i]
  <2>1. CASE cached[r][i] # Miss
    BY <2>1 DEF Merge, Hit
  <2>2. CASE cached[r][i] = Miss
    <3>1. i \in MissedAt(cached[r])
      BY <2>2 DEF MissedAt, Hit
    <3>2. \E j \in DOMAIN m : m[j] = i
      BY <3>1, AskedAt, MissedRank DEF Hit
    <3>3. (CHOOSE j \in DOMAIN m : m[j] = i) \in DOMAIN m /\ m[CHOOSE j \in DOMAIN m : m[j] = i] = i
      BY <3>2
    <3> DEFINE k == CHOOSE j \in DOMAIN m : m[j] = i
    <3>4. Merge(r)[i] = part[r][k]
      BY <2>2 DEF Merge
    <3>5. k \in DOMAIN part[r] /\ m[k] = i
      BY <3>3 DEF Hit
    <3> HIDE DEF k
    <3>6. QED
      BY <3>4, <3>5 DEF Right
  <2>3. QED
    BY <2>1, <2>2
<1>2. Asked[r] = [i \in DOMAIN Asked[r] |-> Asked[r][i]]
  <2>1. Asked[r] \in Seq(Texts)
    BY EmbedAssumption
  <2>2. QED
    BY <2>1
<1>3. Merge(r) = [i \in DOMAIN Asked[r] |-> Merge(r)[i]]
  BY DEF Merge
<1>4. QED
  BY <1>1, <1>2, <1>3

(* Of the positions of a text the last one is written to the cache. *)
LEMMA LastOne ==
    ASSUME NEW n \in Nat, NEW J \in SUBSET (1 .. n), J # {}
    PROVE  \E j \in J : \A i \in J : i <= j
<1> DEFINE T == {x \in Nat : n - x \in J}
           R == {p \in Nat \X Nat : p[1] < p[2]}
<1>1. IsWellFoundedOn(R, Nat)
  BY NatLessThanWellFounded DEF OpToRel
<1>2. T # {} /\ T \subseteq Nat
  <2>1. PICK j \in J : TRUE
    OBVIOUS
  <2>2. n - j \in T
    BY <2>1
  <2>3. QED
    BY <2>2
<1> HIDE DEF R
<1>3. PICK x \in T : \A y \in T : ~(<<y, x>> \in R)
  BY <1>1, <1>2, WFMin
<1>4. \A i \in J : i <= n - x
  <2> TAKE i \in J
  <2>1. n - i \in T /\ n - i \in Nat
    OBVIOUS
  <2>2. ~(n - i < x)
    BY <1>2, <1>3, <2>1 DEF R
  <2>3. QED
    BY <1>2, <1>3, <2>1, <2>2
<1>5. QED
  BY <1>3, <1>4

(* The vectors of the provider are written, each under its own text, and merged
   with those of the cache. *)
LEMMA StoreKeeps == ASSUME EmbedInv, NEW r \in Requests, Store(r) PROVE EmbedInv'
<1> DEFINE m == Missed(cached[r])
           J(t) == {j \in DOMAIN m : Asked[r][m[j]] = t}
           last(t) == CHOOSE j \in J(t) : \A i \in J(t) : i <= j
<1>1. /\ pc[r] = "set" /\ pc' = [pc EXCEPT ![r] = "done"]
      /\ answer' = [answer EXCEPT ![r] = Merge(r)]
      /\ UNCHANGED <<cached, part, sub, nextId, id, reg, healthy, fails, inFlight>>
      /\ \/ cache' = [t \in Texts |-> IF J(t) = {} THEN cache[t] ELSE part[r][last(t)]]
         \/ cache' = cache
  BY DEF Store, Enter, pool
<1>2. Hit(r) /\ Partial(r) /\ \A j \in DOMAIN part[r] : Right(r, j)
  BY <1>1 DEF EmbedInv, ServedInv, WellServed, OnTime
<1>3. \A t \in Texts : J(t) # {} => last(t) \in J(t)
  <2> TAKE t \in Texts
  <2>1. DOMAIN m = 1 .. Len(m) /\ Len(m) \in Nat
    BY <1>2, AskedAt, MissedSize DEF Hit
  <2>2. J(t) \in SUBSET (1 .. Len(m))
    BY <2>1
  <2> HIDE DEF J
  <2>3. QED
    BY <2>1, <2>2, LastOne
<1>4. \A t \in Texts : J(t) # {} => part[r][last(t)] = t
  <2> TAKE t \in Texts
  <2> HAVE J(t) # {}
  <2> DEFINE k == last(t)
  <2>1. k \in DOMAIN m /\ Asked[r][m[k]] = t
    BY <1>3
  <2>2. k \in DOMAIN part[r]
    BY <1>2, <2>1 DEF Hit
  <2> HIDE DEF k
  <2>3. part[r][k] = t
    BY <1>2, <2>1, <2>2 DEF Right
  <2>4. QED
    BY <2>3 DEF k
<1> HIDE DEF J, last
<1>5. cache' \in [Texts -> Texts \cup {Miss}] /\ \A t \in Texts : cache'[t] \in {t, Miss}
  BY <1>1, <1>4 DEF EmbedInv, ServedInv
<1>6. WellServed(r)'
  <2>1. pc'[r] = "done" /\ answer'[r] = Asked[r]
    BY <1>1, <1>2, Merged DEF EmbedInv, ServedInv
  <2>2. QED
    BY <1>1, <1>2, <2>1 DEF WellServed, Hit, Partial, OnTime, Right
<1>7. ServedInv'
  <2>1. DOMAIN answer' = Requests /\ pc' \in [Requests -> Stage]
        /\ \A q \in Requests \ {r} : answer'[q] = answer[q] /\ pc'[q] = pc[q]
    BY <1>1 DEF EmbedInv, ServedInv, Stage
  <2>2. QED
    BY <1>1, <1>5, <1>6, <2>1, OneServed DEF EmbedInv, ServedInv
<1>8. Backends' /\ Batches'
  BY <1>1 DEF EmbedInv, Backends, Batches
<1>9. SlotsInv'
  BY <1>1, SlotsStay DEF EmbedInv, Calls
<1>10. QED
  BY <1>7, <1>8, <1>9 DEF EmbedInv

-----------------------------------------------------------------------------
(* The registry of backends. *)

(* What a probe or a reply says of a backend. *)
LEMMA Judged ==
    ASSUME Backends, NEW u \in Urls, Well(u) \/ Unwell(u)
    PROVE  healthy' \in [Urls -> BOOLEAN] /\ fails' \in [Urls -> 0 .. 2]
<1>1. CASE Well(u)
  BY <1>1 DEF Well, Backends
<1>2. CASE Unwell(u)
  <2>1. fails' \in [Urls -> 0 .. 2]
    BY <1>2 DEF Unwell, Backends
  <2>2. (healthy[u] /\ fails'[u] < 2) \in BOOLEAN
    OBVIOUS
  <2>3. healthy' \in [Urls -> BOOLEAN]
    BY <1>2, <2>2 DEF Unwell, Backends
  <2>4. QED
    BY <2>1, <2>3
<1>3. QED
  BY <1>1, <1>2

(* The requests where only backends change. *)
LEMMA ServedStay ==
    ASSUME ServedInv, UNCHANGED <<cache, pc, cached, part, sub, answer>>
    PROVE  ServedInv'
BY DEF ServedInv, WellServed, Hit, Partial, OnTime, Right

(* A registration anew has a new id, so the calls of the last one are not its own. *)
LEMMA RegistryKeeps ==
    ASSUME EmbedInv, NEW u \in Urls, AddBackend(u) \/ RemoveBackend(u) \/ Probe(u)
    PROVE  EmbedInv'
<1>1. UNCHANGED <<cache, pc, cached, part, sub, answer>>
  BY DEF AddBackend, RemoveBackend, Probe, request
<1>2. ServedInv'
  BY <1>1, ServedStay DEF EmbedInv
<1>3. CASE AddBackend(u)
  <2>1. /\ u \notin reg /\ nextId <= MaxAdds /\ reg' = reg \cup {u}
        /\ id' = [id EXCEPT ![u] = nextId] /\ nextId' = nextId + 1
        /\ healthy' = [healthy EXCEPT ![u] = TRUE] /\ fails' = [fails EXCEPT ![u] = 0]
        /\ inFlight' = [inFlight EXCEPT ![u] = 0]
    BY <1>3 DEF AddBackend
  <2>2. Backends'
    BY <2>1, EmbedAssumption DEF EmbedInv, Backends
  <2>3. Batches'
    BY <1>1, <2>1, EmbedAssumption DEF EmbedInv, Batches, Backends, SubBatch
  <2>4. \A r, k : ~OnCall(r, k, u, nextId)
    BY EmbedAssumption DEF OnCall, EmbedInv, Batches, Backends
  <2>5. Calls(u, nextId) = {}
    BY <2>4, InCalls
  <2>6. \A w, n : Calls(w, n)' = Calls(w, n)
    BY <1>1 DEF Calls
  <2>7. SlotsInv'
    <3>1. \A w \in reg' : inFlight'[w] = Cardinality(Calls(w, id'[w]))
      BY <2>1, <2>5, FS_EmptySet DEF EmbedInv, SlotsInv, SlotsAccounted, Backends
    <3>2. QED
      BY <2>6, <3>1 DEF EmbedInv, SlotsInv, SlotsAccounted
  <2>8. QED
    BY <1>2, <2>2, <2>3, <2>7 DEF EmbedInv
<1>4. CASE RemoveBackend(u)
  <2>1. /\ reg' = reg \ {u} /\ UNCHANGED <<nextId, id>>
        /\ healthy' = [healthy EXCEPT ![u] = FALSE] /\ fails' = [fails EXCEPT ![u] = 0]
        /\ inFlight' = [inFlight EXCEPT ![u] = 0]
    BY <1>4 DEF RemoveBackend
  <2>2. Backends'
    BY <2>1, EmbedAssumption DEF EmbedInv, Backends
  <2>3. Batches'
    BY <1>1, <2>1 DEF EmbedInv, Batches
  <2>4. \A w, n : Calls(w, n)' = Calls(w, n)
    BY <1>1 DEF Calls
  <2>5. SlotsInv'
    BY <2>1, <2>4 DEF EmbedInv, SlotsInv, SlotsAccounted, Backends
  <2>6. QED
    BY <1>2, <2>2, <2>3, <2>5 DEF EmbedInv
<1>5. CASE Probe(u)
  <2>1. (Well(u) \/ Unwell(u)) /\ UNCHANGED <<nextId, id, reg, inFlight>>
    BY <1>5 DEF Probe
  <2>2. Backends'
    BY <2>1, Judged DEF EmbedInv, Backends
  <2>3. Batches'
    BY <1>1, <2>1 DEF EmbedInv, Batches
  <2>4. SlotsInv'
    BY <1>1, <2>1, SlotsStay DEF EmbedInv, Calls
  <2>5. QED
    BY <1>2, <2>2, <2>3, <2>4 DEF EmbedInv
<1>6. QED
  BY <1>3, <1>4, <1>5

-----------------------------------------------------------------------------
(* The sub-batches. *)

(* A request is served by what its sub-batches bring: vectors in their places,
   also when the request has failed before. *)
LEMMA SubServes ==
    ASSUME Batches, ServedInv, NEW r \in Requests, NEW k \in DOMAIN sub[r], NEW s, Sub(r, k, s),
           UNCHANGED <<cache, cached, answer>>,
           pc' = pc \/ pc' = [pc EXCEPT ![r] = IF pc[r] = "pool" THEN "failed" ELSE pc[r]],
           \/ part' = part /\ s.at # "done"
           \/ part' = [part EXCEPT ![r] = Place(r, k)]
    PROVE  ServedInv'
<1>1. WellServed(r) /\ pc[r] \notin {"new", "get", "openrouter"}
  BY DEF ServedInv, WellServed, OnTime
<1>2. Hit(r) /\ Partial(r)
  BY <1>1 DEF WellServed
<1>3. /\ pc' \in [Requests -> Stage] /\ DOMAIN part' = Requests
      /\ pc'[r] = pc[r] \/ (pc[r] = "pool" /\ pc'[r] = "failed")
      /\ \A q \in Requests \ {r} : pc'[q] = pc[q] /\ part'[q] = part[q] /\ sub'[q] = sub[q]
      /\ (part'[r] = part[r] /\ s.at # "done") \/ part'[r] = Place(r, k)
  BY OneSub DEF ServedInv, Stage
<1>4. DOMAIN part'[r] = DOMAIN part[r]
  BY <1>3 DEF Place
<1>5. \A j \in DOMAIN part[r] : Right(r, j) => Right(r, j)'
  BY <1>3 DEF Right, Place
<1>6. s.at = "done" => \A j \in DOMAIN part[r] : j \in From(k) .. To(k, Len(Missed(cached[r]))) => Right(r, j)'
  BY <1>3 DEF Right, Place
<1>7. Hit(r)'
  BY <1>2, <1>4 DEF Hit
<1>8. Partial(r)'
  BY <1>2, <1>4, <1>5, <1>6, OneSub DEF Partial
<1>9. OnTime(r)'
  BY <1>1, <1>3, <1>4, <1>5, OneSub DEF WellServed, OnTime
<1>10. WellServed(r)'
  BY <1>1, <1>3, <1>7, <1>8, <1>9 DEF WellServed
<1>11. QED
  BY <1>3, <1>10, OneServed DEF ServedInv

(* What a sub-batch may become. *)
LEMMA SubTyped ==
    ASSUME Batches, NEW r \in Requests, NEW k \in DOMAIN sub[r], NEW s \in SubBatch, Sub(r, k, s),
           nextId' = nextId,
           s.at \in {"select", "call"} => s.attempt <= MaxRetries,
           s.at = "call" => s.url \in Urls /\ s.id < nextId
    PROVE  Batches'
BY OneSub DEF Batches

(* Where there was no call, none ends. *)
LEMMA NoCallGone ==
    ASSUME Batches, NEW r \in Requests, NEW k \in DOMAIN sub[r], NEW s, Sub(r, k, s),
           s.at # "call", sub[r][k].at # "call", NEW u, NEW n
    PROVE  Calls(u, n)' = Calls(u, n)
<1>1. <<r, k>> \notin Calls(u, n)
  BY InCalls DEF OnCall
<1>2. QED
  BY <1>1, CallGone

(* What a sub-batch may become without a backend. *)
LEMMA Outcomes ==
    ASSUME NEW s \in SubBatch
    PROVE  /\ None \in SubBatch /\ None.at = "done"
           /\ [None EXCEPT !.at = "failed"] \in SubBatch /\ [None EXCEPT !.at = "failed"].at = "failed"
           /\ [s EXCEPT !.at = "select"] \in SubBatch /\ [s EXCEPT !.at = "select"].at = "select"
           /\ [s EXCEPT !.at = "select"].attempt = s.attempt
           /\ s.attempt <= MaxRetries => Backoff(s) \in SubBatch
           /\ Backoff(s).at = "sleep" /\ Backoff(s).attempt = s.attempt + 1
<1>1. MaxRetries \in Nat /\ MaxAdds \in Nat
  BY EmbedAssumption
<1>2. /\ None \in SubBatch /\ None.at = "done"
      /\ [None EXCEPT !.at = "failed"] \in SubBatch /\ [None EXCEPT !.at = "failed"].at = "failed"
  BY <1>1 DEF SubBatch, None
<1>3. /\ [s EXCEPT !.at = "select"] \in SubBatch /\ [s EXCEPT !.at = "select"].at = "select"
      /\ [s EXCEPT !.at = "select"].attempt = s.attempt
  BY DEF SubBatch
<1>4. s.attempt \in Nat
  BY <1>1 DEF SubBatch
<1>5. /\ Backoff(s).at = "sleep" /\ Backoff(s).url = Miss /\ Backoff(s).id = 0
      /\ Backoff(s).attempt = s.attempt + 1
  BY DEF Backoff, None
<1>6. s.attempt <= MaxRetries => Backoff(s) \in SubBatch
  <2>1. s.attempt <= MaxRetries => s.attempt + 1 \in 0 .. MaxRetries + 1
    BY <1>1, <1>4
  <2>2. \A b \in SubBatch : \A x \in 0 .. MaxRetries + 1 :
            [b EXCEPT !.at = "sleep", !.attempt = x] \in SubBatch
    BY DEF SubBatch
  <2>3. QED
    BY <1>2, <2>1, <2>2 DEF Backoff
<1>7. QED
  BY <1>2, <1>3, <1>5, <1>6

(* A slot is taken and the call is made in one step. *)
LEMMA SelectKeeps ==
    ASSUME EmbedInv, NEW r \in Requests, NEW k \in DOMAIN sub[r], SelectBackend(r, k)
    PROVE  EmbedInv'
<1>1. PICK u \in Best :
         /\ Sub(r, k, [sub[r][k] EXCEPT !.at = "call", !.url = u, !.id = id[u]])
         /\ inFlight' = [inFlight EXCEPT ![u] = @ + 1]
  BY DEF SelectBackend
<1>2. sub[r][k].at = "select" /\ UNCHANGED <<cache, pc, cached, part, answer, nextId, id, reg, healthy, fails>>
  BY DEF SelectBackend
<1> DEFINE s == [sub[r][k] EXCEPT !.at = "call", !.url = u, !.id = id[u]]
<1>3. u \in reg /\ u \in Urls /\ inFlight[u] < MaxConcurrency
  BY DEF Best, Selectable, EmbedInv, Backends
<1>4. sub[r][k] \in SubBatch /\ sub[r][k].attempt <= MaxRetries
  BY <1>2 DEF EmbedInv, Batches
<1>5. PICK n \in 0 .. MaxAdds : n = id[u] /\ n < nextId
  BY <1>3 DEF EmbedInv, Backends
<1>6. s \in SubBatch /\ s.at = "call" /\ s.url = u /\ s.id = n /\ s.attempt <= MaxRetries
  BY <1>3, <1>4, <1>5 DEF SubBatch
<1> HIDE DEF s
<1>7. Batches'
  BY <1>1, <1>2, <1>3, <1>5, <1>6, SubTyped DEF EmbedInv, s
<1>8. ServedInv'
  BY <1>1, <1>2, <1>6, SubServes DEF EmbedInv, s
<1>9. Backends'
  BY <1>1, <1>2, <1>3, EmbedAssumption DEF EmbedInv, Backends
<1>10. SlotsInv'
  <2>0. PICK t : Sub(r, k, t) /\ t.at = "call" /\ t.url = u /\ t.id = n
    BY <1>1, <1>6 DEF s
  <2>1. /\ <<r, k>> \notin Calls(u, n)
        /\ Calls(u, n)' = Calls(u, n) \cup {<<r, k>>}
        /\ \A w, x : w # u \/ x # n => Calls(w, x)' = Calls(w, x)
    BY <1>2, <2>0, CallMade DEF EmbedInv
  <2>2. IsFiniteSet(Calls(u, n)) /\ Cardinality(Calls(u, n)) = inFlight[u]
    BY <1>3, <1>5 DEF EmbedInv, SlotsInv, SlotsAccounted
  <2>3. IsFiniteSet(Calls(u, n)') /\ Cardinality(Calls(u, n)') = inFlight[u] + 1
    BY <2>1, <2>2, FS_AddElement
  <2>4. \A w \in Urls : \A x \in 0 .. MaxAdds : IsFiniteSet(Calls(w, x)')
    <3> SUFFICES ASSUME NEW w \in Urls, NEW x \in 0 .. MaxAdds
                 PROVE  IsFiniteSet(Calls(w, x)')
      OBVIOUS
    <3>1. IsFiniteSet(Calls(w, x))
      BY DEF EmbedInv, SlotsInv
    <3>2. QED
      BY <2>1, <2>3, <3>1
  <2>5. ASSUME NEW w \in reg
        PROVE  inFlight'[w] = Cardinality(Calls(w, id[w])')
    <3>1. CASE w = u
      <4>1. inFlight'[u] = inFlight[u] + 1
        BY <1>1, <1>3 DEF EmbedInv, Backends
      <4>2. id'[w] = n
        BY <1>2, <1>5, <3>1
      <4>3. QED
        BY <2>3, <3>1, <4>1, <4>2
    <3>2. CASE w # u
      <4>1. inFlight'[w] = inFlight[w]
        BY <1>1, <3>2, <2>5 DEF EmbedInv, Backends
      <4>2. inFlight[w] = Cardinality(Calls(w, id[w]))
        BY <2>5 DEF EmbedInv, SlotsInv, SlotsAccounted
      <4>3. PICK x : x = id[w]
        OBVIOUS
      <4>4. Calls(w, x)' = Calls(w, x)
        BY <2>1, <3>2
      <4>5. id'[w] = x
        BY <1>2, <4>3
      <4>6. QED
        BY <4>1, <4>2, <4>3, <4>4, <4>5
    <3>3. QED
      BY <3>1, <3>2
  <2>6. reg' = reg
    BY <1>2
  <2>7. QED
    BY <2>4, <2>5, <2>6 DEF SlotsInv, SlotsAccounted
<1>11. QED
  BY <1>7, <1>8, <1>9, <1>10 DEF EmbedInv

(* Without a backend a sub-batch is tried again or fails. *)
LEMMA WithoutBackend ==
    ASSUME EmbedInv, NEW r \in Requests, NEW k \in DOMAIN sub[r], NoCapacity(r, k) \/ Slept(r, k)
    PROVE  EmbedInv'
<1> DEFINE failed == [None EXCEPT !.at = "failed"]
           again  == [sub[r][k] EXCEPT !.at = "select"]
<1>1. /\ sub[r][k].at \in {"select", "sleep"}
      /\ UNCHANGED <<cache, cached, part, answer, nextId, id, reg, healthy, fails, inFlight>>
      /\ \/ Sub(r, k, failed) /\ pc' = [pc EXCEPT ![r] = IF pc[r] = "pool" THEN "failed" ELSE pc[r]]
         \/ sub[r][k].attempt <= MaxRetries /\ Sub(r, k, again) /\ pc' = pc
  <2>1. CASE NoCapacity(r, k)
    BY <2>1 DEF NoCapacity, Fail, Enter, pool
  <2>2. CASE Slept(r, k)
    <3>1. sub[r][k].attempt \in Nat
      BY EmbedAssumption DEF EmbedInv, Batches, SubBatch
    <3>2. QED
      BY <2>2, <3>1, EmbedAssumption DEF Slept, Fail, Enter, pool
  <2>3. QED
    BY <2>1, <2>2
<1>2. /\ failed \in SubBatch /\ failed.at = "failed"
      /\ again \in SubBatch /\ again.at = "select" /\ again.attempt = sub[r][k].attempt
  BY Outcomes DEF EmbedInv, Batches
<1> HIDE DEF failed, again
<1>3. PICK s : /\ Sub(r, k, s) /\ s \in SubBatch /\ s.at \in {"failed", "select"}
               /\ s.at = "select" => s.attempt <= MaxRetries
  BY <1>1, <1>2
<1>4. Batches'
  BY <1>1, <1>3, SubTyped DEF EmbedInv
<1>5. ServedInv'
  BY <1>1, <1>3, SubServes DEF EmbedInv
<1>6. Backends'
  BY <1>1 DEF EmbedInv, Backends
<1>7. SlotsInv'
  <2>1. \A u, n : Calls(u, n)' = Calls(u, n)
    BY <1>1, <1>3, NoCallGone DEF EmbedInv
  <2>2. QED
    BY <1>1, <2>1, SlotsStay DEF EmbedInv
<1>8. QED
  BY <1>4, <1>5, <1>6, <1>7 DEF EmbedInv

(* The slot of a call goes back to the registration it was taken from. *)
LEMMA SlotFreed ==
    ASSUME EmbedInv, NEW r \in Requests, NEW k \in DOMAIN sub[r], sub[r][k].at = "call",
           NEW s, Sub(r, k, s), s.at # "call", UNCHANGED <<reg, id>>, NEW ok,
           Free(sub[r][k].url, sub[r][k].url \in reg /\ id[sub[r][k].url] = sub[r][k].id, ok)
    PROVE  SlotsInv' /\ inFlight' \in [Urls -> 0 .. MaxConcurrency]
<1>1. PICK u \in Urls, m \in 0 .. MaxAdds : u = sub[r][k].url /\ m = sub[r][k].id
  BY DEF EmbedInv, Batches, SubBatch
<1>2. <<r, k>> \in Calls(u, m) /\ \A w, n : w # u \/ n # m => <<r, k>> \notin Calls(w, n)
  BY <1>1, InCalls DEF OnCall
<1>3. \A w, n : Calls(w, n)' = Calls(w, n) \ {<<r, k>>}
  BY CallGone DEF EmbedInv
<1> DEFINE mine == u \in reg /\ id[u] = m
<1>4. inFlight' = IF mine THEN [inFlight EXCEPT ![u] = @ - 1] ELSE inFlight
  BY <1>1 DEF Free
<1>5. IsFiniteSet(Calls(u, m)) /\ Cardinality(Calls(u, m)) \in Nat /\ Cardinality(Calls(u, m)) # 0
  BY <1>1, <1>2, FS_EmptySet, FS_CardinalityType DEF EmbedInv, SlotsInv
<1>6. IsFiniteSet(Calls(u, m)') /\ Cardinality(Calls(u, m)') = Cardinality(Calls(u, m)) - 1
  BY <1>2, <1>3, <1>5, FS_RemoveElement
<1>7. \A w \in Urls : \A n \in 0 .. MaxAdds : IsFiniteSet(Calls(w, n)')
  <2> SUFFICES ASSUME NEW w \in Urls, NEW n \in 0 .. MaxAdds
               PROVE  IsFiniteSet(Calls(w, n)')
    OBVIOUS
  <2>1. IsFiniteSet(Calls(w, n))
    BY DEF EmbedInv, SlotsInv
  <2>2. QED
    BY <1>3, <2>1, FS_RemoveElement
<1>8. mine => inFlight[u] = Cardinality(Calls(u, m))
  BY DEF EmbedInv, SlotsInv, SlotsAccounted
<1>9. inFlight' \in [Urls -> 0 .. MaxConcurrency]
  <2>1. inFlight \in [Urls -> 0 .. MaxConcurrency] /\ MaxConcurrency \in Nat
    BY EmbedAssumption DEF EmbedInv, Backends
  <2>2. mine => inFlight[u] - 1 \in 0 .. MaxConcurrency
    BY <1>1, <1>5, <1>8, <2>1
  <2> HIDE DEF mine
  <2>3. QED
    BY <1>4, <2>1, <2>2
<1>10. ASSUME NEW w \in reg
       PROVE  inFlight'[w] = Cardinality(Calls(w, id[w])')
  <2>1. PICK n \in 0 .. MaxAdds : n = id[w] /\ inFlight[w] = Cardinality(Calls(w, n))
    BY <1>10 DEF EmbedInv, Backends, SlotsInv, SlotsAccounted
  <2>2. inFlight'[w] = Cardinality(Calls(w, n)')
    <3>0. w \in Urls /\ inFlight \in [Urls -> 0 .. MaxConcurrency]
      BY <1>10 DEF EmbedInv, Backends
    <3>1. CASE w = u /\ n = m
      <4>1. mine
        BY <1>10, <2>1, <3>1
      <4>2. inFlight'[w] = inFlight[w] - 1
        BY <1>4, <3>0, <3>1, <4>1
      <4>3. QED
        BY <1>6, <2>1, <3>1, <4>2
    <3>2. CASE ~(w = u /\ n = m)
      <4>1. Calls(w, n)' = Calls(w, n)
        BY <1>2, <1>3, <3>2
      <4>2. inFlight'[w] = inFlight[w]
        BY <1>4, <2>1, <3>0, <3>2
      <4>3. QED
        BY <2>1, <4>1, <4>2
    <3>3. QED
      BY <3>1, <3>2
  <2>3. id'[w] = n
    BY <2>1
  <2>4. QED
    BY <2>2, <2>3
<1>11. SlotsInv'
  BY <1>7, <1>10 DEF SlotsInv, SlotsAccounted
<1>12. QED
  BY <1>9, <1>11

(* A reply, a 429 or a failure: the slot is free, and a vector is in its place. *)
LEMMA ReplyKeeps ==
    ASSUME EmbedInv, NEW r \in Requests, NEW k \in DOMAIN sub[r], Reply(r, k)
    PROVE  EmbedInv'
<1> DEFINE b      == sub[r][k]
           mine   == b.url \in reg /\ id[b.url] = b.id
           failed == [None EXCEPT !.at = "failed"]
           slept  == Backoff(b)
           again  == [Backoff(b) EXCEPT !.at = "select"]
<1>1. b.at = "call" /\ UNCHANGED <<cache, cached, answer, nextId, id, reg>>
  BY DEF Reply
<1>2. b \in SubBatch /\ b.attempt <= MaxRetries /\ b.url \in Urls /\ b.attempt \in Nat
  BY <1>1, EmbedAssumption DEF EmbedInv, Batches, SubBatch
<1>3. \/ /\ Free(b.url, mine, TRUE)
         /\ IF mine THEN Well(b.url) ELSE UNCHANGED <<healthy, fails>>
         /\ Sub(r, k, None) /\ part' = [part EXCEPT ![r] = Place(r, k)]
         /\ pc' = pc
      \/ /\ Free(b.url, mine, FALSE) /\ UNCHANGED <<healthy, fails>> /\ part' = part
         /\ Sub(r, k, slept) /\ pc' = pc
      \/ /\ Free(b.url, mine, FALSE) /\ part' = part
         /\ IF mine THEN Unwell(b.url) ELSE UNCHANGED <<healthy, fails>>
         /\ \/ Sub(r, k, failed) /\ pc' = [pc EXCEPT ![r] = IF pc[r] = "pool" THEN "failed" ELSE pc[r]]
            \/ b.attempt # MaxRetries /\ Sub(r, k, again) /\ pc' = pc
  BY DEF Reply, Fail, Enter
<1>4. /\ None \in SubBatch /\ None.at = "done"
      /\ failed \in SubBatch /\ failed.at = "failed"
      /\ slept \in SubBatch /\ slept.at = "sleep" /\ slept.attempt = b.attempt + 1
  BY <1>2, Outcomes
<1>5. again \in SubBatch /\ again.at = "select" /\ again.attempt = slept.attempt
  BY <1>4, Outcomes
<1>6. b.attempt # MaxRetries => b.attempt + 1 <= MaxRetries
  BY <1>2, EmbedAssumption
<1>7. /\ healthy' \in [Urls -> BOOLEAN] /\ fails' \in [Urls -> 0 .. 2]
      /\ \E ok \in BOOLEAN : Free(b.url, mine, ok)
  <2>1. (Well(b.url) \/ Unwell(b.url)) \/ UNCHANGED <<healthy, fails>>
    BY <1>3
  <2>2. \E ok \in BOOLEAN : Free(b.url, mine, ok)
    BY <1>3
  <2>3. healthy' \in [Urls -> BOOLEAN] /\ fails' \in [Urls -> 0 .. 2]
    BY <1>2, <2>1, Judged DEF EmbedInv, Backends
  <2>4. QED
    BY <2>2, <2>3
<1> HIDE DEF failed, slept, again
<1>8. PICK s : /\ Sub(r, k, s) /\ s \in SubBatch /\ s.at # "call"
               /\ s.at = "select" => s.attempt <= MaxRetries
               /\ \/ part' = part /\ s.at # "done"
                  \/ part' = [part EXCEPT ![r] = Place(r, k)]
               /\ pc' = pc \/ pc' = [pc EXCEPT ![r] = IF pc[r] = "pool" THEN "failed" ELSE pc[r]]
  BY <1>3, <1>4, <1>5, <1>6
<1>9. Batches'
  BY <1>1, <1>8, SubTyped DEF EmbedInv
<1>10. ServedInv'
  BY <1>1, <1>8, SubServes DEF EmbedInv
<1>11. SlotsInv' /\ inFlight' \in [Urls -> 0 .. MaxConcurrency]
  BY <1>1, <1>7, <1>8, SlotFreed
<1>12. Backends'
  BY <1>1, <1>7, <1>11 DEF EmbedInv, Backends
<1>13. QED
  BY <1>9, <1>10, <1>11, <1>12 DEF EmbedInv

(* Every step keeps the invariant. *)
LEMMA EmbedKeeps == EmbedInv /\ [EmbedNext]_embedVars => EmbedInv'
<1> SUFFICES ASSUME EmbedInv, [EmbedNext]_embedVars
             PROVE  EmbedInv'
  OBVIOUS
<1>1. CASE UNCHANGED embedVars
  <2>1. UNCHANGED <<cache, pc, cached, part, sub, answer, nextId, id, reg, healthy, fails, inFlight>>
    BY <1>1 DEF embedVars, request, pool
  <2>2. ServedInv'
    BY <2>1, ServedStay DEF EmbedInv
  <2>3. Backends' /\ Batches'
    BY <2>1 DEF EmbedInv, Backends, Batches
  <2>4. SlotsInv'
    BY <2>1, SlotsStay DEF EmbedInv, Calls
  <2>5. QED
    BY <2>2, <2>3, <2>4 DEF EmbedInv
<1>2. ASSUME NEW r \in Requests, Serve(r)
      PROVE  EmbedInv'
  BY <1>2, LookupKeeps, OpenRouterKeeps, PoolDoneKeeps, StoreKeeps DEF Serve
<1>3. ASSUME NEW r \in Requests, NEW k \in DOMAIN sub[r], SubStep(r, k)
      PROVE  EmbedInv'
  BY <1>3, SelectKeeps, WithoutBackend, ReplyKeeps DEF SubStep
<1>4. QED
  BY <1>1, <1>2, <1>3, ReceiveKeeps, RegistryKeeps DEF EmbedNext

(* Every state the service reaches satisfies the invariant. *)
LEMMA EmbedInvariant == EmbedSpec => []EmbedInv
BY EmbedStart, EmbedKeeps, PTL DEF EmbedSpec

-----------------------------------------------------------------------------
(* Every variable of the embed service keeps its type; the calls a backend has
   in flight are never more than it takes at once (tei-pool.ts, selectBackend). *)
THEOREM EmbedTyped == EmbedSpec => []EmbedTypeOK
<1>1. ASSUME EmbedInv
      PROVE  EmbedTypeOK
  <2>1. pc \in [Requests -> Stage]
    BY <1>1 DEF EmbedInv, ServedInv
  <2>2. \A r \in Requests : \A k \in DOMAIN sub[r] :
           /\ sub[r][k].at \in {"select", "call", "sleep", "done", "failed"}
           /\ sub[r][k].attempt \in 0 .. MaxRetries + 1
    BY <1>1 DEF EmbedInv, Batches, SubBatch
  <2>3. QED
    BY <1>1, <2>1, <2>2 DEF EmbedInv, Backends, ServedInv, EmbedTypeOK, Stage
<1>2. QED
  BY <1>1, EmbedInvariant, PTL

(* Whatever order hits, sub-batches, retries and late replies come in, an
   answer has the vector of every text at its place, and the cache keeps no
   vector under another text (router.ts and tei-pool.ts, embed). *)
THEOREM AlwaysAligned == EmbedSpec => []Aligned
<1>1. EmbedInv => Aligned
  BY DEF EmbedInv, ServedInv, WellServed, OnTime, Aligned
<1>2. QED
  BY <1>1, EmbedInvariant, PTL

(* The count of a backend is the number of its calls, through failures,
   removal and registration anew (tei-pool.ts, embedSubBatch). *)
THEOREM SlotsKept == EmbedSpec => []SlotsAccounted
<1>1. EmbedInv => SlotsAccounted
  BY DEF EmbedInv, SlotsInv
<1>2. QED
  BY <1>1, EmbedInvariant, PTL
=============================================================================
