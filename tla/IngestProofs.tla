---------------------------- MODULE IngestProofs ----------------------------
(***************************************************************************)
(* What an ingest takes in, and what its indexings leave in the stores.    *)
(*                                                                         *)
(* The registry runs, proved for any number of documents and days, any     *)
(* limit, batch, channel and semaphores, any thresholds and any of the     *)
(* modelled faults: every variable keeps its type and the channel and the  *)
(* semaphores their capacity, a run takes no more documents than its       *)
(* limit, and one that ends by itself has left nothing to select.          *)
(*                                                                         *)
(* The versions of a paper, proved for any number of them, of indexings,   *)
(* admin requests and faults: a version loses its flag only to a newer one *)
(* whose points are in place, and after indexings in order and without a   *)
(* loss only the newest is found, also with readers next to them.          *)
(*                                                                         *)
(* A search and its pages, proved for any requests and any number of       *)
(* versions, chunks found and offsets: the pages fit together, and what    *)
(* could be found when the search began is found.                          *)
(***************************************************************************)
EXTENDS RegistryRun, Readers, FiniteSetTheorems, WellFoundedInduction, TLAPS

-----------------------------------------------------------------------------
(* The inductive invariant. *)

Types ==
    /\ row \in [Doc -> Status]
    /\ last \in {"none", "running", "stopped", "failed", "completed", "auto_stopped"}
    /\ cmd \in {"none", "update", "ingest"} /\ runs \in 0..MaxRuns
    /\ stopRequested \in BOOLEAN
    /\ day \in 1..Days + 1 /\ listing \in SUBSET Doc /\ complete \in SUBSET (1..Days)
    /\ prod \in {"select", "batch", "closed"} /\ seen \in SUBSET Doc
    /\ remaining \in Int /\ streak \in Nat /\ infra \in BOOLEAN /\ stopFlag \in BOOLEAN
    /\ buffer \in Seq(Doc) /\ Len(buffer) <= Capacity /\ parked \in Seq(Doc)
    /\ cons \in {"receive", "acquire", "drain", "settle", "gone"}
    /\ processed \in Nat /\ failed \in Nat /\ autoStop \in BOOLEAN
    /\ at \in [Doc -> Place]

SlotInv == Cardinality(Downloading) <= DlSlots /\ Cardinality(InFlight) <= DocSlots

(* The budget: what may still be spent on the batch, the budget has.  Outside
   a batch no task of the producer is left. *)
Unspent == At({"queued", "reading", "fetching"})

BatchInv == prod # "batch" => At({"queued", "reading", "fetching", "sending"}) = {}

BudgetInv == Cardinality(Unspent) <= remaining

(* The consumer: what was sent is in the buffer until it is received, and then
   the consumer has it in hand; it settles after the producer has closed an
   emptied channel. *)
HandInv ==
    /\ \A d \in Doc : at[d] = "acquiring" => cons = "acquire"
    /\ \A d, e \in Doc : at[d] = "acquiring" /\ at[e] = "acquiring" => d = e
    /\ \A d \in Doc : at[d] = "sent" => \E i \in 1..Len(buffer) : buffer[i] = d
    /\ cons \in {"settle", "gone"} => prod = "closed" /\ buffer = <<>>

(* Until a stop or the end of the budget, a document that was met and is still
   to select is on its way, or its mark is lost, a producer that closes has met
   all of them, and the consumer throws none away. *)
OnItsWay == {"reading", "unread", "fetching", "sending", "sent", "acquiring", "running",
             "rejected", "unmarked"}

MetInv ==
    (cmd = "ingest" /\ ~Stopping /\ remaining > 0) =>
        /\ \A d \in seen : row[d] \in {"listed", "downloaded"} => at[d] \in OnItsWay
        /\ prod = "closed" => Selectable \subseteq seen
        /\ cons # "drain"

(* What is in the channel is there once, and was sent or is being sent. *)
Lined(s, place) ==
    \A i \in 1..Len(s) : at[s[i]] = place /\ \A j \in 1..Len(s) : s[i] = s[j] => i = j

ChanInv == Lined(buffer, "sent") /\ Lined(parked, "sending")

(* Only a document that is in the pipeline, was rejected there, or does not take
   part in the run, has an intermediate status; those that were met are those
   past the queue of a batch; and a consumer that is gone has left none in the
   pipeline. *)
PassInv ==
    /\ \A d \in Doc : row[d] = "in_flight" => at[d] \in {"none", "running", "rejected"}
    /\ \A d \in Doc : d \in seen <=> at[d] \notin {"none", "queued"}
    /\ cons = "gone" => \A d \in Doc : at[d] \notin {"running", "counted", "marking"}

RunInv ==
    Types /\ SlotInv /\ BatchInv /\ BudgetInv /\ HandInv /\ ChanInv /\ PassInv /\ MetInv

-----------------------------------------------------------------------------
(* Sets of documents are finite. *)

LEMMA FiniteDocs ==
    \A S \in SUBSET Doc : IsFiniteSet(S) /\ Cardinality(S) \in Nat
<1>1. IsFiniteSet(Doc)
  BY FS_Interval, RegistryAssumption DEF Doc
<1>2. \A S \in SUBSET Doc : IsFiniteSet(S)
  BY <1>1, FS_Subset
<1>3. QED
  BY <1>2, FS_CardinalityType

(* Places that no document comes to hold no more than before. *)
LEMMA NoMore ==
    ASSUME NEW P, \A d \in Doc : at'[d] \in P => at[d] \in P
    PROVE  /\ Cardinality(At(P)') <= Cardinality(At(P))
           /\ Cardinality(At(P)) \in Nat /\ Cardinality(At(P)') \in Nat
<1>1. At(P) \in SUBSET Doc /\ At(P)' \in SUBSET At(P)
  BY DEF At
<1>2. IsFiniteSet(At(P)) /\ Cardinality(At(P)) \in Nat
  BY <1>1, FiniteDocs
<1>3. Cardinality(At(P)') <= Cardinality(At(P))
  BY <1>1, <1>2, FS_Subset
<1>4. At(P)' \in SUBSET Doc
  BY <1>1
<1>5. Cardinality(At(P)') \in Nat
  BY <1>4, FiniteDocs
<1>6. QED
  BY <1>2, <1>3, <1>5

(* Places that one document comes to hold one more. *)
LEMMA OneMore ==
    ASSUME NEW P, NEW c \in Doc, \A d \in Doc \ {c} : at'[d] \in P => at[d] \in P
    PROVE  /\ Cardinality(At(P)') <= Cardinality(At(P)) + 1
           /\ Cardinality(At(P)) \in Nat /\ Cardinality(At(P)') \in Nat
<1> DEFINE S == At(P)
           T == At(P)'
<1>1. S \in SUBSET Doc /\ T \in SUBSET Doc /\ T \subseteq S \cup {c}
  BY DEF At
<1> HIDE DEF S, T
<1>2. IsFiniteSet(S) /\ Cardinality(S) \in Nat /\ Cardinality(T) \in Nat
  BY <1>1, FiniteDocs
<1>3. IsFiniteSet(S \cup {c}) /\ Cardinality(S \cup {c}) \in Nat
  BY <1>1, FiniteDocs
<1>4. Cardinality(S \cup {c}) <= Cardinality(S) + 1
  <2>1. Cardinality(S \cup {c}) = IF c \in S THEN Cardinality(S) ELSE Cardinality(S) + 1
    BY <1>2, FS_AddElement
  <2>2. QED
    BY <1>2, <2>1
<1>5. Cardinality(T) <= Cardinality(S \cup {c})
  BY <1>1, <1>3, FS_Subset
<1>6. Cardinality(T) <= Cardinality(S) + 1
  BY <1>2, <1>3, <1>4, <1>5
<1>7. QED
  BY <1>2, <1>6 DEF S, T

(* Places that one document leaves hold one less. *)
LEMMA OneLess ==
    ASSUME NEW P, NEW c \in Doc, at[c] \in P, at'[c] \notin P,
           \A d \in Doc : at'[d] \in P => at[d] \in P
    PROVE  /\ Cardinality(At(P)') <= Cardinality(At(P)) - 1
           /\ Cardinality(At(P)) \in Nat /\ Cardinality(At(P)') \in Nat
<1> DEFINE S == At(P)
           T == At(P)'
<1>1. S \in SUBSET Doc /\ T \in SUBSET Doc /\ T \in SUBSET (S \ {c}) /\ c \in S
  BY DEF At
<1> HIDE DEF S, T
<1>2. IsFiniteSet(S) /\ Cardinality(S) \in Nat /\ Cardinality(T) \in Nat
  BY <1>1, FiniteDocs
<1>3. IsFiniteSet(S \ {c}) /\ Cardinality(S \ {c}) = Cardinality(S) - 1
  BY <1>1, <1>2, FS_RemoveElement
<1>4. Cardinality(T) <= Cardinality(S \ {c})
  BY <1>1, <1>3, FS_Subset
<1>5. QED
  BY <1>2, <1>3, <1>4 DEF S, T

-----------------------------------------------------------------------------
(* The selection: as many rows as its LIMIT, and one if there is one. *)

LEMMA AtMost ==
    ASSUME NEW S \in SUBSET Doc, NEW n \in Nat
    PROVE  FirstOf(S, n) \in SUBSET Doc /\ Cardinality(FirstOf(S, n)) <= n
<1> DEFINE F == FirstOf(S, n)
           Before(d) == {e \in S : e < d}
           rank == [d \in F |-> Cardinality(Before(d)) + 1]
<1>1. F \in SUBSET Doc /\ F \subseteq S
  BY DEF FirstOf
<1>2. \A d \in Doc : Before(d) \in SUBSET Doc /\ IsFiniteSet(Before(d)) /\ Cardinality(Before(d)) \in Nat
  BY FiniteDocs
<1>3. \A d \in F : Cardinality(Before(d)) < n
  BY DEF FirstOf
<1>4. rank \in [F -> 1..n]
  <2>1. \A d \in F : Cardinality(Before(d)) + 1 \in 1..n
    <3> TAKE d \in F
    <3>1. Cardinality(Before(d)) \in Nat /\ Cardinality(Before(d)) < n
      BY <1>1, <1>2, <1>3
    <3> HIDE DEF Before
    <3>2. QED
      BY <3>1
  <2>2. QED
    BY <2>1
<1>5. ASSUME NEW c \in F, NEW d \in F, c < d
      PROVE  rank[c] # rank[d]
  <2>1. c \in Doc /\ d \in Doc /\ c \in S /\ c \in Int /\ d \in Int
    BY <1>1, RegistryAssumption DEF Doc
  <2>2. Before(c) \in SUBSET Before(d) /\ Before(c) # Before(d)
    <3>1. c \in Before(d) /\ c \notin Before(c)
      BY <1>5, <2>1
    <3>2. \A e \in Before(c) : e \in Before(d)
      <4> TAKE e \in Before(c)
      <4>1. e \in S /\ e \in Int /\ e < c
        BY RegistryAssumption DEF Doc
      <4>2. QED
        BY <1>5, <2>1, <4>1
    <3>3. QED
      BY <3>1, <3>2
  <2>3. Cardinality(Before(c)) # Cardinality(Before(d))
    BY <1>2, <2>1, <2>2, FS_Subset
  <2>4. Cardinality(Before(c)) \in Nat /\ Cardinality(Before(d)) \in Nat
    BY <1>2, <2>1
  <2>5. rank[c] = Cardinality(Before(c)) + 1 /\ rank[d] = Cardinality(Before(d)) + 1
    BY <1>5
  <2> HIDE DEF Before, rank
  <2>6. QED
    BY <2>3, <2>4, <2>5
<1>6. rank \in Injection(F, 1..n)
  <2>1. ASSUME NEW c \in F, NEW d \in F, rank[c] = rank[d]
        PROVE  c = d
    <3>1. c \in Int /\ d \in Int
      BY <1>1, RegistryAssumption DEF Doc
    <3> HIDE DEF rank, F
    <3>2. ~(c < d) /\ ~(d < c)
      BY <1>5, <2>1
    <3>3. QED
      BY <3>1, <3>2
  <2> HIDE DEF rank, F
  <2>2. QED
    BY <1>4, <2>1 DEF Injection, IsInjective
<1>7. IsFiniteSet(1..n) /\ Cardinality(1..n) = n
  BY FS_Interval
<1> HIDE DEF rank, F
<1>8. Cardinality(F) <= n
  BY <1>6, <1>7, FS_Injection
<1>9. QED
  BY <1>1, <1>8 DEF F

(* A LIMIT that is not zero takes a row if there is one. *)
LEMMA AtLeastOne ==
    ASSUME NEW S \in SUBSET Doc, NEW n \in Nat, n > 0, S # {}
    PROVE  FirstOf(S, n) # {}
<1> DEFINE R == {ss \in Nat \X Nat : ss[1] < ss[2]}
<1>1. S \subseteq Nat
  BY RegistryAssumption DEF Doc
<1>2. IsWellFoundedOn(R, Nat)
  BY NatLessThanWellFounded DEF OpToRel
<1> HIDE DEF R
<1>3. PICK d \in S : \A e \in S : ~(<<e, d>> \in R)
  BY <1>1, <1>2, WFMin
<1>4. {e \in S : e < d} = {}
  BY <1>1, <1>3 DEF R
<1>5. Cardinality({e \in S : e < d}) = 0
  BY <1>4, FS_EmptySet
<1>6. d \in FirstOf(S, n)
  BY <1>3, <1>5 DEF FirstOf
<1>7. QED
  BY <1>6

(* A batch is of documents to select, no more than the budget, and there is one
   if there are such documents that were not met. *)
LEMMA BatchFits ==
    ASSUME Types, remaining > 0
    PROVE  /\ Batch \subseteq Selectable \ seen /\ Batch \in SUBSET Doc
           /\ Cardinality(Batch) <= remaining
           /\ Batch = {} => Selectable \subseteq seen
<1> DEFINE n == Min2(BatchMax, remaining)
           S == Selectable \ seen
<1>1. n \in Nat /\ n > 0 /\ n <= remaining
  BY RegistryAssumption DEF Types, Min2
<1>2. S \in SUBSET Doc
  BY DEF Selectable
<1>3. Batch = FirstOf(S, n) /\ Batch \subseteq S
  BY DEF Batch, FirstOf
<1> HIDE DEF n, S
<1>4. Batch \in SUBSET Doc /\ Cardinality(Batch) <= n
  BY <1>1, <1>2, <1>3, AtMost
<1>5. Cardinality(Batch) \in Nat
  BY <1>4, FiniteDocs
<1>6. Batch = {} => S = {}
  BY <1>1, <1>2, <1>3, AtLeastOne
<1>7. Cardinality(Batch) <= remaining
  BY <1>1, <1>4, <1>5 DEF Types
<1>8. QED
  BY <1>3, <1>4, <1>6, <1>7 DEF S

-----------------------------------------------------------------------------
(* The channel. *)

(* What was sent is in the buffer. *)
Buffered == \A d \in Doc : at[d] = "sent" => \E i \in 1..Len(buffer) : buffer[i] = d

(* A sent document is in the buffer, or its sender is parked. *)
LEMMA SendFits ==
    ASSUME Types, NEW d \in Doc, Send(d)
    PROVE  /\ buffer' \in Seq(Doc) /\ Len(buffer') <= Capacity /\ parked' \in Seq(Doc)
           /\ at' \in [Doc -> Place] /\ at'[d] \in {"sent", "sending"}
           /\ \A e \in Doc \ {d} : at'[e] = at[e]
           /\ Buffered => Buffered'
<1>1. /\ buffer \in Seq(Doc) /\ Len(buffer) <= Capacity /\ parked \in Seq(Doc)
      /\ at \in [Doc -> Place] /\ Capacity \in Nat
  BY RegistryAssumption DEF Types
<1>2. CASE Len(buffer) < Capacity
  <2>1. /\ buffer' = Append(buffer, d) /\ at' = [at EXCEPT ![d] = "sent"] /\ parked' = parked
    BY <1>2 DEF Send, Move
  <2>2. buffer' \in Seq(Doc) /\ Len(buffer') = Len(buffer) + 1 /\ Len(buffer) \in Nat
    BY <1>1, <2>1
  <2>3. buffer'[Len(buffer')] = d /\ \A i \in 1..Len(buffer) : buffer'[i] = buffer[i]
    BY <1>1, <2>1
  <2>4. at' \in [Doc -> Place] /\ at'[d] = "sent" /\ \A e \in Doc \ {d} : at'[e] = at[e]
    BY <1>1, <2>1 DEF Place
  <2>5. ASSUME Buffered, NEW e \in Doc, at'[e] = "sent"
        PROVE  \E i \in 1..Len(buffer') : buffer'[i] = e
    <3>1. CASE e = d
      BY <2>2, <2>3, <3>1
    <3>2. CASE e # d
      <4>1. PICK i \in 1..Len(buffer) : buffer[i] = e
        BY <2>4, <2>5, <3>2 DEF Buffered
      <4>2. i \in 1..Len(buffer') /\ buffer'[i] = e
        BY <2>2, <2>3, <4>1
      <4>3. QED
        BY <4>2
    <3>3. QED
      BY <3>1, <3>2
  <2>6. QED
    BY <1>1, <1>2, <2>1, <2>2, <2>4, <2>5 DEF Buffered
<1>3. CASE ~(Len(buffer) < Capacity)
  <2>1. /\ parked' = Append(parked, d) /\ at' = [at EXCEPT ![d] = "sending"] /\ buffer' = buffer
    BY <1>3 DEF Send, Move
  <2>2. at' \in [Doc -> Place] /\ at'[d] = "sending" /\ \A e \in Doc \ {d} : at'[e] = at[e]
    BY <1>1, <2>1 DEF Place
  <2>3. parked' \in Seq(Doc)
    BY <1>1, <2>1
  <2>4. Buffered => Buffered'
    BY <2>1, <2>2 DEF Buffered
  <2>5. QED
    BY <1>1, <2>1, <2>2, <2>3, <2>4
<1>4. QED
  BY <1>2, <1>3

(* The head of a buffer leaves it, the rest stays. *)
LEMMA TailKeeps ==
    ASSUME NEW s \in Seq(Doc), s # <<>>, NEW t \in Seq(Doc),
           t = Tail(s) \/ \E x \in Doc : t = Append(Tail(s), x)
    PROVE  /\ Len(t) <= Len(s) /\ Head(s) \in Doc
           /\ \A i \in 2..Len(s) : i - 1 \in 1..Len(t) /\ t[i - 1] = s[i]
           /\ s[1] = Head(s)
<1>1. Len(s) \in Nat /\ Len(s) > 0 /\ Head(s) = s[1] /\ Head(s) \in Doc
  OBVIOUS
<1>2. Tail(s) \in Seq(Doc) /\ Len(Tail(s)) = Len(s) - 1
  BY <1>1
<1>3. \A i \in 1..Len(s) - 1 : Tail(s)[i] = s[i + 1]
  BY <1>1
<1>4. \A i \in 2..Len(s) : i - 1 \in 1..Len(Tail(s)) /\ Tail(s)[i - 1] = s[i]
  BY <1>1, <1>2, <1>3
<1>5. CASE t = Tail(s)
  BY <1>1, <1>2, <1>4, <1>5
<1>6. ASSUME NEW x \in Doc, t = Append(Tail(s), x)
      PROVE  Len(t) <= Len(s) /\ \A i \in 2..Len(s) : i - 1 \in 1..Len(t) /\ t[i - 1] = s[i]
  <2> DEFINE r == Tail(s)
  <2>1. r \in Seq(Doc) /\ t = Append(r, x) /\ Len(r) = Len(s) - 1
    BY <1>2, <1>6
  <2>2. \A i \in 2..Len(s) : i - 1 \in 1..Len(r) /\ r[i - 1] = s[i]
    BY <1>4
  <2> HIDE DEF r
  <2>3. Len(t) = Len(r) + 1 /\ \A i \in 1..Len(r) : t[i] = r[i]
    BY <2>1
  <2>4. QED
    BY <1>1, <2>1, <2>2, <2>3
<1>7. QED
  BY <1>1, <1>5, <1>6

(* The head is received, and the first parked sender follows into the buffer. *)
LEMMA ReceiveFits ==
    ASSUME Types, buffer # <<>>, NEW place \in {"acquiring", "discarded"}, Receive(place)
    PROVE  /\ buffer' \in Seq(Doc) /\ Len(buffer') <= Capacity /\ parked' \in Seq(Doc)
           /\ at' \in [Doc -> Place]
           /\ \A e \in Doc :
                at'[e] = at[e] \/ at'[e] = "sent" \/ (e = Head(buffer) /\ at'[e] = place)
           /\ Buffered => Buffered'
<1>1. /\ buffer \in Seq(Doc) /\ Len(buffer) <= Capacity /\ parked \in Seq(Doc)
      /\ at \in [Doc -> Place] /\ Capacity \in Nat
  BY RegistryAssumption DEF Types
<1>2. CASE parked = <<>>
  <2>1. /\ buffer' = Tail(buffer) /\ at' = [at EXCEPT ![Head(buffer)] = place] /\ parked' = parked
    BY <1>2 DEF Receive, Move
  <2>2. buffer' \in Seq(Doc)
    BY <1>1, <2>1
  <2>3. /\ Len(buffer') <= Len(buffer) /\ Head(buffer) \in Doc /\ buffer[1] = Head(buffer)
        /\ \A i \in 2..Len(buffer) : i - 1 \in 1..Len(buffer') /\ buffer'[i - 1] = buffer[i]
    BY <1>1, <2>1, <2>2, TailKeeps
  <2>4. at' \in [Doc -> Place] /\ at'[Head(buffer)] = place
        /\ \A e \in Doc \ {Head(buffer)} : at'[e] = at[e]
    BY <1>1, <2>1, <2>3 DEF Place
  <2>5. ASSUME Buffered, NEW e \in Doc, at'[e] = "sent"
        PROVE  \E i \in 1..Len(buffer') : buffer'[i] = e
    <3>1. e # Head(buffer) /\ at[e] = "sent"
      BY <2>4, <2>5
    <3>2. PICK i \in 1..Len(buffer) : buffer[i] = e
      BY <2>5, <3>1 DEF Buffered
    <3>3. i \in 2..Len(buffer)
      BY <1>1, <2>3, <3>1, <3>2
    <3>4. QED
      BY <2>3, <3>2, <3>3
  <2>6. Len(buffer') <= Capacity
    BY <1>1, <2>2, <2>3
  <2>7. Buffered => Buffered'
    BY <2>5 DEF Buffered
  <2>8. \A e \in Doc : at'[e] = at[e] \/ (e = Head(buffer) /\ at'[e] = place)
    BY <2>3, <2>4
  <2>9. QED
    BY <1>1, <2>1, <2>2, <2>4, <2>6, <2>7, <2>8
<1>3. CASE parked # <<>>
  <2> DEFINE h == Head(parked)
  <2>1. /\ buffer' = Append(Tail(buffer), h) /\ parked' = Tail(parked)
        /\ at' = [at EXCEPT ![Head(buffer)] = place, ![h] = "sent"]
    BY <1>3 DEF Receive, Move
  <2>2. h \in Doc /\ parked' \in Seq(Doc) /\ Tail(buffer) \in Seq(Doc) /\ Len(Tail(buffer)) \in Nat
    BY <1>1, <1>3, <2>1
  <2>3. buffer' \in Seq(Doc)
    BY <2>1, <2>2
  <2>4. /\ Len(buffer') <= Len(buffer) /\ Head(buffer) \in Doc /\ buffer[1] = Head(buffer)
        /\ \A i \in 2..Len(buffer) : i - 1 \in 1..Len(buffer') /\ buffer'[i - 1] = buffer[i]
    BY <1>1, <2>1, <2>2, <2>3, TailKeeps
  <2>5. Len(buffer') = Len(Tail(buffer)) + 1 /\ buffer'[Len(buffer')] = h
    BY <2>1, <2>2
  <2> HIDE DEF h
  <2>6. /\ at' \in [Doc -> Place] /\ at'[h] = "sent"
        /\ Head(buffer) # h => at'[Head(buffer)] = place
        /\ \A e \in Doc \ {Head(buffer), h} : at'[e] = at[e]
    BY <1>1, <2>1, <2>2, <2>4 DEF Place
  <2>7. ASSUME Buffered, NEW e \in Doc, at'[e] = "sent"
        PROVE  \E i \in 1..Len(buffer') : buffer'[i] = e
    <3>1. CASE e = h
      BY <2>2, <2>5, <3>1
    <3>2. CASE e # h
      <4>1. e # Head(buffer) /\ at[e] = "sent"
        BY <2>6, <2>7, <3>2
      <4>2. PICK i \in 1..Len(buffer) : buffer[i] = e
        BY <2>7, <4>1 DEF Buffered
      <4>3. i \in 2..Len(buffer)
        BY <1>1, <2>4, <4>1, <4>2
      <4>4. QED
        BY <2>4, <4>2, <4>3
    <3>3. QED
      BY <3>1, <3>2
  <2>8. Len(buffer') <= Capacity
    BY <1>1, <2>3, <2>4
  <2>9. Buffered => Buffered'
    BY <2>7 DEF Buffered
  <2>10. \A e \in Doc : at'[e] = at[e] \/ at'[e] = "sent" \/ (e = Head(buffer) /\ at'[e] = place)
    BY <2>2, <2>4, <2>6
  <2>11. QED
    BY <2>2, <2>3, <2>6, <2>8, <2>9, <2>10
<1>4. QED
  BY <1>2, <1>3

(* A document that is sent joins the others in the channel. *)
LEMMA SendLines ==
    ASSUME Types, ChanInv, NEW d \in Doc, at[d] \notin {"sent", "sending"}, Send(d)
    PROVE  ChanInv'
<1>1. /\ buffer \in Seq(Doc) /\ parked \in Seq(Doc) /\ at \in [Doc -> Place]
      /\ Len(buffer) \in Nat /\ Len(parked) \in Nat
  BY DEF Types
<1>2. ASSUME NEW s \in Seq(Doc), NEW place, Lined(s, place), at[d] # place,
             NEW t, t = Append(s, d), \A e \in Doc \ {d} : at'[e] = at[e], at'[d] = place
      PROVE  \A i \in 1..Len(t) : at'[t[i]] = place /\ \A j \in 1..Len(t) : t[i] = t[j] => i = j
  <2>1. /\ Len(s) \in Nat /\ Len(t) = Len(s) + 1 /\ t[Len(s) + 1] = d
        /\ \A i \in 1..Len(s) : t[i] = s[i] /\ s[i] \in Doc
    BY <1>2
  <2>2. \A i \in 1..Len(s) : s[i] # d /\ at'[s[i]] = place
    BY <1>2, <2>1 DEF Lined
  <2>3. \A i \in 1..Len(t) : i = Len(s) + 1 \/ i \in 1..Len(s)
    BY <2>1
  <2>4. ASSUME NEW i \in 1..Len(t) PROVE at'[t[i]] = place
    BY <1>2, <2>1, <2>2, <2>3
  <2>5. ASSUME NEW i \in 1..Len(t), NEW j \in 1..Len(t), t[i] = t[j] PROVE i = j
    <3>1. CASE i \in 1..Len(s) /\ j \in 1..Len(s)
      BY <1>2, <2>1, <2>5, <3>1 DEF Lined
    <3>2. CASE i \notin 1..Len(s) \/ j \notin 1..Len(s)
      BY <2>1, <2>2, <2>3, <2>5, <3>2
    <3>3. QED
      BY <3>1, <3>2
  <2>6. QED
    BY <2>4, <2>5
<1>3. ASSUME NEW s \in Seq(Doc), NEW place, Lined(s, place), at[d] # place,
             \A e \in Doc \ {d} : at'[e] = at[e]
      PROVE  \A i \in 1..Len(s) : at'[s[i]] = place /\ \A j \in 1..Len(s) : s[i] = s[j] => i = j
  <2>1. \A i \in 1..Len(s) : s[i] \in Doc /\ s[i] # d
    BY <1>3 DEF Lined
  <2>2. QED
    BY <1>3, <2>1 DEF Lined
<1>4. CASE Len(buffer) < Capacity
  <2>1. /\ buffer' = Append(buffer, d) /\ at'[d] = "sent" /\ parked' = parked
        /\ \A e \in Doc \ {d} : at'[e] = at[e]
    BY <1>1, <1>4 DEF Send, Move
  <2>2. Lined(buffer, "sent") /\ Lined(parked, "sending") /\ at[d] # "sent" /\ at[d] # "sending"
    BY DEF ChanInv
  <2>3. Lined(buffer, "sent")'
    BY <1>1, <1>2, <2>1, <2>2 DEF Lined
  <2>4. Lined(parked, "sending")'
    BY <1>1, <1>3, <2>1, <2>2 DEF Lined
  <2>5. QED
    BY <2>3, <2>4 DEF ChanInv
<1>5. CASE ~(Len(buffer) < Capacity)
  <2>1. /\ parked' = Append(parked, d) /\ at'[d] = "sending" /\ buffer' = buffer
        /\ \A e \in Doc \ {d} : at'[e] = at[e]
    BY <1>1, <1>5 DEF Send, Move
  <2>2. Lined(buffer, "sent") /\ Lined(parked, "sending") /\ at[d] # "sent" /\ at[d] # "sending"
    BY DEF ChanInv
  <2>3. Lined(parked, "sending")'
    BY <1>1, <1>2, <2>1, <2>2 DEF Lined
  <2>4. Lined(buffer, "sent")'
    BY <1>1, <1>3, <2>1, <2>2 DEF Lined
  <2>5. QED
    BY <2>3, <2>4 DEF ChanInv
<1>6. QED
  BY <1>4, <1>5

(* Only documents in the channel move when one is received. *)
LEMMA ReceiveLines ==
    ASSUME Types, ChanInv, buffer # <<>>, NEW place \in {"acquiring", "discarded"}, Receive(place)
    PROVE  /\ ChanInv'
           /\ \A e \in Doc : at'[e] # at[e] => at[e] \in {"sent", "sending"}
<1> DEFINE b == Head(buffer)
           rest == Tail(buffer)
<1>1. /\ buffer \in Seq(Doc) /\ parked \in Seq(Doc) /\ at \in [Doc -> Place]
  BY DEF Types
<1>2. /\ b \in Doc /\ rest \in Seq(Doc) /\ buffer[1] = b /\ 1 \in 1..Len(buffer)
      /\ Len(buffer) \in Nat /\ Len(rest) = Len(buffer) - 1
      /\ \A i \in 1..Len(rest) : rest[i] = buffer[i + 1] /\ i + 1 \in 1..Len(buffer)
  BY <1>1
<1>3. at[b] = "sent"
  BY <1>2 DEF ChanInv, Lined
<1>4. /\ \A i \in 1..Len(rest) : at[rest[i]] = "sent" /\ rest[i] # b /\ rest[i] \in Doc
      /\ \A i, j \in 1..Len(rest) : rest[i] = rest[j] => i = j
  BY <1>1, <1>2 DEF ChanInv, Lined
<1>5. CASE parked = <<>>
  <2>1. /\ buffer' = rest /\ parked' = parked /\ at' = [at EXCEPT ![b] = place]
    BY <1>5 DEF Receive, Move
  <2>2. at'[b] = place /\ \A e \in Doc \ {b} : at'[e] = at[e]
    BY <1>1, <1>2, <2>1
  <2>3. Len(parked) = 0
    BY <1>5
  <2> HIDE DEF b, rest
  <2>4. Lined(buffer, "sent")'
    BY <1>4, <2>1, <2>2 DEF Lined
  <2>5. Lined(parked, "sending")'
    BY <2>1, <2>3 DEF Lined
  <2>6. QED
    BY <1>3, <2>2, <2>4, <2>5 DEF ChanInv
<1>6. CASE parked # <<>>
  <2> DEFINE h == Head(parked)
             others == Tail(parked)
  <2>1. /\ buffer' = Append(rest, h) /\ parked' = others
        /\ at' = [at EXCEPT ![b] = place, ![h] = "sent"]
    BY <1>6 DEF Receive, Move
  <2>2. /\ h \in Doc /\ others \in Seq(Doc) /\ parked[1] = h /\ 1 \in 1..Len(parked)
        /\ Len(parked) \in Nat /\ Len(others) = Len(parked) - 1
        /\ \A i \in 1..Len(others) : others[i] = parked[i + 1] /\ i + 1 \in 1..Len(parked)
    BY <1>1, <1>6
  <2>3. at[h] = "sending" /\ h # b
    BY <1>3, <2>2 DEF ChanInv, Lined
  <2>4. /\ \A i \in 1..Len(others) : at[others[i]] = "sending" /\ others[i] # h /\ others[i] \in Doc
        /\ \A i, j \in 1..Len(others) : others[i] = others[j] => i = j
    BY <1>1, <2>2 DEF ChanInv, Lined
  <2>5. at'[b] = place /\ at'[h] = "sent" /\ \A e \in Doc \ {b, h} : at'[e] = at[e]
    BY <1>1, <1>2, <2>1, <2>2, <2>3
  <2>6. /\ Len(buffer') = Len(rest) + 1 /\ buffer'[Len(rest) + 1] = h /\ Len(rest) \in Nat
        /\ \A i \in 1..Len(rest) : buffer'[i] = rest[i]
    BY <1>2, <2>1, <2>2
  <2> HIDE DEF b, rest, h, others
  <2>7. \A i \in 1..Len(buffer') : i = Len(rest) + 1 \/ i \in 1..Len(rest)
    BY <2>6
  <2>8. \A i \in 1..Len(rest) : rest[i] # h /\ at'[rest[i]] = "sent"
    BY <1>4, <2>3, <2>5
  <2>9. \A i \in 1..Len(buffer') : at'[buffer'[i]] = "sent"
    BY <2>5, <2>6, <2>7, <2>8
  <2>10. \A i, j \in 1..Len(buffer') : buffer'[i] = buffer'[j] => i = j
    BY <1>4, <2>6, <2>7, <2>8
  <2>11. Lined(buffer, "sent")'
    BY <2>9, <2>10 DEF Lined
  <2>12. \A i \in 1..Len(others) : at'[others[i]] = "sending"
    BY <1>3, <2>4, <2>5
  <2>13. Lined(parked, "sending")'
    BY <2>1, <2>4, <2>12 DEF Lined
  <2>14. QED
    BY <1>3, <2>3, <2>5, <2>11, <2>13 DEF ChanInv
<1>7. QED
  BY <1>5, <1>6

-----------------------------------------------------------------------------
(* What a step keeps that brings no document to the places of a part. *)

LEMMA LinesStay ==
    ASSUME Types, ChanInv, UNCHANGED <<buffer, parked>>,
           \A d \in Doc : at[d] \in {"sent", "sending"} => at'[d] = at[d]
    PROVE  ChanInv'
<1>1. /\ \A i \in 1..Len(buffer) : buffer[i] \in Doc
      /\ \A i \in 1..Len(parked) : parked[i] \in Doc
  BY DEF Types
<1>2. QED
  BY <1>1 DEF ChanInv, Lined

LEMMA SlotsStay ==
    ASSUME SlotInv, DlSlots \in Nat, DocSlots \in Nat,
           \A d \in Doc : at'[d] \in {"reading", "fetching", "sending"}
                             => at[d] \in {"reading", "fetching", "sending"},
           \A d \in Doc : at'[d] \in {"running", "counted", "marking"}
                             => at[d] \in {"running", "counted", "marking"}
    PROVE  SlotInv'
<1>1. /\ Cardinality(Downloading') <= Cardinality(Downloading)
      /\ Cardinality(Downloading) \in Nat /\ Cardinality(Downloading') \in Nat
  BY NoMore DEF Downloading
<1>2. /\ Cardinality(InFlight') <= Cardinality(InFlight)
      /\ Cardinality(InFlight) \in Nat /\ Cardinality(InFlight') \in Nat
  BY NoMore DEF InFlight
<1>3. QED
  BY <1>1, <1>2 DEF SlotInv

LEMMA BudgetStays ==
    ASSUME BudgetInv, remaining \in Int, remaining' = remaining,
           \A d \in Doc : at'[d] \in {"queued", "reading", "fetching"}
                             => at[d] \in {"queued", "reading", "fetching"}
    PROVE  BudgetInv'
<1>1. /\ Cardinality(Unspent') <= Cardinality(Unspent)
      /\ Cardinality(Unspent) \in Nat /\ Cardinality(Unspent') \in Nat
  BY NoMore DEF Unspent
<1>2. QED
  BY <1>1 DEF BudgetInv

LEMMA BatchStays ==
    ASSUME BatchInv, prod' = prod,
           \A d \in Doc : at'[d] \in {"queued", "reading", "fetching", "sending"}
                             => at[d] \in {"queued", "reading", "fetching", "sending"}
    PROVE  BatchInv'
BY DEF BatchInv, At

(* All documents off the run, with a budget that is not negative. *)
LEMMA NothingRuns ==
    ASSUME \A d \in Doc : at'[d] = "none", remaining' \in Nat, seen' = {},
           buffer' = <<>>, parked' = <<>>,
           cons' \in {"receive", "gone"}, cons' = "gone" => prod' = "closed"
    PROVE  SlotInv' /\ BatchInv' /\ BudgetInv' /\ HandInv' /\ ChanInv' /\ PassInv'
<1>1. Downloading' = {} /\ InFlight' = {} /\ Unspent' = {}
      /\ At({"queued", "reading", "fetching", "sending"})' = {}
  BY DEF Downloading, InFlight, Unspent, At
<1>2. DlSlots \in Nat /\ DocSlots \in Nat
  BY RegistryAssumption
<1>3. SlotInv' /\ BatchInv' /\ BudgetInv'
  BY <1>1, <1>2, FS_EmptySet DEF SlotInv, BatchInv, BudgetInv
<1>4. HandInv' /\ PassInv'
  BY DEF HandInv, PassInv
<1>5. ChanInv'
  <2>1. Len(<<>>) = 0
    OBVIOUS
  <2>2. QED
    BY <2>1 DEF ChanInv, Lined
<1>6. QED
  BY <1>3, <1>4, <1>5

(* A step that leaves the run alone, or stops it. *)
LEMMA RunStays ==
    ASSUME RunInv, Types', UNCHANGED <<prod, seen, remaining, buffer, parked, cons, at>>,
           \A d \in Doc : row'[d] = "in_flight" => row[d] = "in_flight",
           cmd' = "ingest" => Stopping'
    PROVE  RunInv'
<1>1. SlotInv' /\ BatchInv' /\ BudgetInv' /\ HandInv'
  BY DEF RunInv, SlotInv, Downloading, InFlight, At, BatchInv, BudgetInv, Unspent, HandInv
<1>2. MetInv'
  BY DEF MetInv
<1>3. ChanInv'
  BY LinesStay DEF RunInv
<1>4. PassInv'
  BY DEF RunInv, PassInv
<1>5. QED
  BY <1>1, <1>2, <1>3, <1>4 DEF RunInv

-----------------------------------------------------------------------------
(* Starting, stopping and ending a run; the update run. *)

(* The variables of a run that begins, and of one that has ended. *)
RunTypes ==
    /\ prod \in {"select", "batch", "closed"} /\ seen \in SUBSET Doc
    /\ remaining \in Int /\ streak \in Nat /\ infra \in BOOLEAN /\ stopFlag \in BOOLEAN
    /\ buffer \in Seq(Doc) /\ Len(buffer) <= Capacity /\ parked \in Seq(Doc)
    /\ cons \in {"receive", "acquire", "drain", "settle", "gone"}
    /\ processed \in Nat /\ failed \in Nat /\ autoStop \in BOOLEAN
    /\ at \in [Doc -> Place]

(* Both have their types. *)
LEMMA FreshTypes == ASSUME Fresh \/ Gone PROVE RunTypes'
<1>1. Limit \in Nat /\ Capacity \in Nat
  BY RegistryAssumption
<1>2. /\ prod' \in {"select", "closed"} /\ seen' = {} /\ remaining' \in {0, Limit} /\ streak' = 0
      /\ infra' = FALSE /\ stopFlag' = FALSE /\ buffer' = <<>> /\ parked' = <<>>
      /\ cons' \in {"receive", "gone"} /\ processed' = 0 /\ failed' = 0 /\ autoStop' = FALSE
      /\ at' = [d \in Doc |-> "none"]
  BY DEF Fresh, Gone
<1>3. buffer' \in Seq(Doc) /\ parked' \in Seq(Doc) /\ Len(buffer') <= Capacity
  <2>1. <<>> \in Seq(Doc) /\ Len(<<>>) = 0
    OBVIOUS
  <2>2. QED
    BY <1>1, <1>2, <2>1
<1>4. at' \in [Doc -> Place]
  BY <1>2 DEF Place
<1>5. /\ prod' \in {"select", "batch", "closed"} /\ seen' \in SUBSET Doc
      /\ remaining' \in Int /\ streak' \in Nat /\ infra' \in BOOLEAN /\ stopFlag' \in BOOLEAN
      /\ cons' \in {"receive", "acquire", "drain", "settle", "gone"}
      /\ processed' \in Nat /\ failed' \in Nat /\ autoStop' \in BOOLEAN
  <2>1. remaining' \in Int /\ streak' \in Nat /\ processed' \in Nat /\ failed' \in Nat
    BY <1>1, <1>2
  <2>2. infra' \in BOOLEAN /\ stopFlag' \in BOOLEAN /\ autoStop' \in BOOLEAN
    BY <1>2
  <2>3. prod' \in {"select", "batch", "closed"} /\ seen' \in SUBSET Doc
        /\ cons' \in {"receive", "acquire", "drain", "settle", "gone"}
    BY <1>2
  <2>4. QED
    BY <2>1, <2>2, <2>3
<1>6. QED
  BY <1>3, <1>4, <1>5 DEF RunTypes

LEMMA StartIngestKeeps == ASSUME RunInv, StartIngest PROVE RunInv'
<1>1. Types'
  <2>1. RunTypes'
    BY FreshTypes DEF StartIngest
  <2>2. runs' \in 0..MaxRuns
    BY RegistryAssumption DEF RunInv, Types, StartIngest
  <2>3. QED
    BY <2>1, <2>2 DEF RunInv, Types, RunTypes, StartIngest, updater
<1>2. SlotInv' /\ BatchInv' /\ BudgetInv' /\ HandInv' /\ ChanInv' /\ PassInv'
  BY NothingRuns, RegistryAssumption DEF StartIngest, Fresh
<1>3. MetInv'
  BY DEF MetInv, StartIngest, Fresh
<1>4. QED
  BY <1>1, <1>2, <1>3 DEF RunInv

LEMMA FinalizeKeeps == ASSUME RunInv, Finalize PROVE RunInv'
<1>1. Types'
  <2>1. RunTypes'
    BY FreshTypes DEF Finalize
  <2>2. last' \in {"stopped", "failed", "completed", "auto_stopped"}
    BY DEF Finalize, EndWith
  <2>3. QED
    BY <2>1, <2>2 DEF RunInv, Types, RunTypes, Finalize, EndWith, updater
<1>2. SlotInv' /\ BatchInv' /\ BudgetInv' /\ HandInv' /\ ChanInv' /\ PassInv'
  BY NothingRuns DEF Finalize, Gone
<1>3. MetInv'
  BY DEF MetInv, Finalize, EndWith
<1>4. QED
  BY <1>1, <1>2, <1>3 DEF RunInv

LEMMA CrashKeeps == ASSUME RunInv, Crash PROVE RunInv'
<1>1. Types'
  <2>1. RunTypes'
    BY FreshTypes DEF Crash
  <2>2. day' \in 1..Days + 1
    BY RegistryAssumption DEF Crash, NoDay
  <2>3. row' \in [Doc -> Status]
    BY DEF RunInv, Types, Crash, Status
  <2>4. QED
    BY <2>1, <2>2, <2>3 DEF RunInv, Types, RunTypes, Crash, EndWith, NoDay
<1>2. SlotInv' /\ BatchInv' /\ BudgetInv' /\ HandInv' /\ ChanInv' /\ PassInv'
  BY NothingRuns DEF Crash, Gone
<1>3. MetInv'
  BY DEF MetInv, Crash, EndWith
<1>4. QED
  BY <1>1, <1>2, <1>3 DEF RunInv

LEMMA StopKeeps == ASSUME RunInv, Stop PROVE RunInv'
<1>1. Types'
  BY DEF RunInv, Types, Stop, updater, ingest, producer, channel, consumer
<1>2. Stopping' /\ UNCHANGED <<row, prod, seen, remaining, buffer, parked, cons, at>>
  BY DEF Stop, Stopping, ingest, producer, channel, consumer
<1>3. QED
  BY <1>1, <1>2, RunStays

LEMMA UpdateKeeps == ASSUME RunInv, StartUpdate \/ Updater PROVE RunInv'
<1>1. UNCHANGED <<prod, seen, remaining, buffer, parked, cons, at>> /\ cmd' # "ingest"
  BY DEF StartUpdate, Updater, Page, PageFails, Register, EndUpdate, EndWith,
         ingest, producer, channel, consumer, runner
<1>2. ASSUME StartUpdate PROVE Types'
  BY <1>2, RegistryAssumption
     DEF RunInv, Types, StartUpdate, ingest, producer, channel, consumer
<1>3. ASSUME Page PROVE Types'
  BY <1>3 DEF RunInv, Types, Page, Entries, Doc, runner, ingest, producer, channel, consumer
<1>4. ASSUME PageFails PROVE Types'
  BY <1>4, RegistryAssumption
     DEF RunInv, Types, PageFails, runner, ingest, producer, channel, consumer
<1>5. ASSUME Register PROVE Types'
  <2>1. row' \in [Doc -> Status]
    BY <1>5 DEF RunInv, Types, Register, Status
  <2>2. day' = day + 1 /\ complete' = complete \cup {day} /\ listing' = {} /\ day <= Days
    BY <1>5 DEF Register
  <2>3. day \in 1..Days + 1 /\ complete \in SUBSET (1..Days) /\ Days \in Nat
    BY RegistryAssumption DEF RunInv, Types
  <2>4. day' \in 1..Days + 1 /\ complete' \in SUBSET (1..Days)
    BY <2>2, <2>3
  <2>5. QED
    BY <1>5, <2>1, <2>2, <2>4
       DEF RunInv, Types, Register, runner, ingest, producer, channel, consumer
<1>6. ASSUME EndUpdate PROVE Types'
  <2>1. last' \in {"stopped", "completed"} /\ cmd' = "none" /\ day' \in 1..Days + 1
    BY <1>6, RegistryAssumption DEF EndUpdate, EndWith, NoDay
  <2>2. QED
    BY <1>6, <2>1
       DEF RunInv, Types, EndUpdate, EndWith, NoDay, ingest, producer, channel, consumer
<1>7. Types'
  BY <1>2, <1>3, <1>4, <1>5, <1>6 DEF Updater
<1>8. \A d \in Doc : row'[d] = "in_flight" => row[d] = "in_flight"
  BY DEF StartUpdate, Updater, Page, PageFails, Register, EndUpdate
<1>9. QED
  BY <1>1, <1>7, <1>8, RunStays

-----------------------------------------------------------------------------
(* The producer. *)

(* A task of a batch: the batch goes on. *)
LEMMA TaskOfBatch ==
    ASSUME RunInv, NEW d \in Doc, at[d] \in {"queued", "reading", "fetching", "sending"}
    PROVE  prod = "batch" /\ cons \notin {"settle", "gone"}
BY DEF RunInv, Types, BatchInv, HandInv, At

LEMMA SelectKeeps == ASSUME RunInv, Select PROVE RunInv'
<1> DEFINE taken == IF remaining > 0 /\ ~Stopping THEN Batch ELSE {}
<1>1. /\ prod = "select" /\ cmd = "ingest"
      /\ UNCHANGED <<row, last, cmd, runs, stopRequested, day, listing, complete, seen,
                     remaining, streak, infra, stopFlag, buffer, parked, cons, processed,
                     failed, autoStop>>
      /\ \/ taken = {} /\ prod' = "closed" /\ at' = at
         \/ /\ taken # {} /\ prod' = "batch"
            /\ at' = [d \in Doc |-> IF d \in taken THEN "queued" ELSE at[d]]
  BY DEF Select, runner, updater, channel, consumer
<1>2. at \in [Doc -> Place] /\ remaining \in Int /\ At({"queued", "reading", "fetching", "sending"}) = {}
  BY <1>1 DEF RunInv, Types, BatchInv
<1>3. taken # {} => remaining > 0 /\ ~Stopping /\ taken = Batch
  OBVIOUS
<1>4. /\ taken \subseteq Selectable \ seen /\ taken \in SUBSET Doc
      /\ taken # {} => Cardinality(taken) <= remaining
      /\ (remaining > 0 /\ ~Stopping /\ taken = {}) => Selectable \subseteq seen
  BY BatchFits, <1>3 DEF RunInv
<1> HIDE DEF taken
<1>5. Types'
  <2>1. at' \in [Doc -> Place]
    BY <1>1, <1>2 DEF Place
  <2>2. QED
    BY <1>1, <2>1 DEF RunInv, Types
<1>6. \A d \in Doc : at'[d] = at[d] \/ (at'[d] = "queued" /\ d \in taken)
  BY <1>1
<1>7. SlotInv'
  BY <1>6, SlotsStay, RegistryAssumption DEF RunInv
<1>8. BatchInv'
  BY <1>1, <1>2 DEF BatchInv, At
<1>9. BudgetInv'
  <2>1. CASE taken = {}
    <3>1. at' = at
      BY <1>1, <2>1
    <3>2. QED
      BY <1>1, <1>2, <3>1, BudgetStays DEF RunInv
  <2>2. CASE taken # {}
    <3>1. Unspent' \in SUBSET taken
      BY <1>2, <1>6 DEF Unspent, At
    <3>2. IsFiniteSet(taken) /\ Cardinality(taken) \in Nat
      BY <1>4, FiniteDocs
    <3>3. Cardinality(Unspent') <= Cardinality(taken)
      BY <3>1, <3>2, FS_Subset
    <3>4. Unspent' \in SUBSET Doc
      BY <1>4, <3>1
    <3>5. Cardinality(Unspent') \in Nat
      BY <3>4, FiniteDocs
    <3>6. QED
      BY <1>1, <1>2, <1>4, <2>2, <3>2, <3>3, <3>5 DEF BudgetInv
  <2>3. QED
    BY <2>1, <2>2
<1>10. HandInv'
  BY <1>1, <1>6 DEF RunInv, HandInv
<1>11. MetInv'
  <2> SUFFICES ASSUME ~Stopping, remaining > 0
               PROVE  /\ \A d \in seen' : row'[d] \in {"listed", "downloaded"} => at'[d] \in OnItsWay
                      /\ prod' = "closed" => Selectable' \subseteq seen'
                      /\ cons' # "drain"
    BY <1>1 DEF MetInv, Stopping
  <2>1. \A d \in seen : d \in Doc /\ at'[d] = at[d]
    BY <1>4, <1>6 DEF RunInv, Types
  <2>2. \A d \in seen : row[d] \in {"listed", "downloaded"} => at[d] \in OnItsWay
    BY <1>1 DEF RunInv, MetInv
  <2>3. cons # "drain"
    BY <1>1 DEF RunInv, MetInv
  <2>4. prod' = "closed" => Selectable \subseteq seen
    BY <1>1, <1>4
  <2>5. QED
    BY <1>1, <2>1, <2>2, <2>3, <2>4 DEF Selectable
<1>12. ChanInv'
  <2>1. \A d \in Doc : at[d] \in {"sent", "sending"} => at'[d] = at[d]
    <3>1. \A d \in Doc : at[d] \in {"sent", "sending"} => d \in seen
      BY DEF RunInv, PassInv
    <3>2. QED
      BY <1>4, <1>6, <3>1
  <2>2. QED
    BY <1>1, <2>1, LinesStay DEF RunInv
<1>13. PassInv'
  <2>1. \A d \in taken : row[d] # "in_flight" /\ d \notin seen
    BY <1>4 DEF Selectable
  <2>2. QED
    BY <1>1, <1>6, <2>1 DEF RunInv, PassInv
<1>14. QED
  BY <1>5, <1>7, <1>8, <1>9, <1>10, <1>11, <1>12, <1>13 DEF RunInv

LEMMA SelectFailsKeeps == ASSUME RunInv, SelectFails PROVE RunInv'
<1>1. /\ prod = "select" /\ prod' = "closed" /\ cmd' = "none" /\ last' = "failed"
      /\ UNCHANGED <<row, runs, day, listing, complete, seen, remaining, streak, infra, stopFlag,
                     buffer, parked, cons, processed, failed, autoStop, at>>
      /\ stopRequested' = FALSE
  BY DEF SelectFails, EndWith, updater, channel, consumer
<1>2. Types'
  BY <1>1 DEF RunInv, Types
<1>3. SlotInv' /\ BatchInv' /\ BudgetInv' /\ HandInv'
  BY <1>1 DEF RunInv, SlotInv, Downloading, InFlight, At, BatchInv, BudgetInv, Unspent, HandInv
<1>4. MetInv'
  BY <1>1 DEF MetInv
<1>5. ChanInv' /\ PassInv'
  BY <1>1, LinesStay DEF RunInv, PassInv
<1>6. QED
  BY <1>2, <1>3, <1>4, <1>5 DEF RunInv

LEMMA BatchEndsKeeps == ASSUME RunInv, BatchEnds PROVE RunInv'
<1>1. /\ prod = "batch" /\ prod' = "select" /\ At({"queued", "reading", "fetching", "sending"}) = {}
      /\ UNCHANGED <<row, last, cmd, runs, stopRequested, day, listing, complete, seen,
                     remaining, streak, infra, stopFlag, buffer, parked, cons, processed,
                     failed, autoStop, at>>
  BY DEF BatchEnds, runner, updater, channel, consumer
<1>2. Types'
  BY <1>1 DEF RunInv, Types
<1>3. SlotInv' /\ BatchInv' /\ BudgetInv' /\ HandInv'
  BY <1>1 DEF RunInv, SlotInv, Downloading, InFlight, At, BatchInv, BudgetInv, Unspent, HandInv
<1>4. MetInv'
  BY <1>1 DEF RunInv, MetInv, Stopping
<1>5. ChanInv' /\ PassInv'
  BY <1>1, LinesStay DEF RunInv, PassInv
<1>6. QED
  BY <1>2, <1>3, <1>4, <1>5 DEF RunInv

(* A task of the batch begins: one document more is downloaded. *)
LEMMA TakeKeeps == ASSUME RunInv, NEW d \in Doc, Take(d) PROVE RunInv'
<1>1. /\ at[d] = "queued" /\ Cardinality(Downloading) < DlSlots
      /\ UNCHANGED <<row, last, cmd, runs, stopRequested, day, listing, complete, prod,
                     remaining, streak, infra, stopFlag, buffer, parked, cons, processed,
                     failed, autoStop>>
  BY DEF Take, runner, updater, channel, consumer
<1>2. \/ /\ remaining <= 0 \/ Stopping
         /\ at' = [at EXCEPT ![d] = "none"] /\ seen' = seen
      \/ at' = [at EXCEPT ![d] = "reading"] /\ seen' = seen \cup {d}
  BY DEF Take, Move
<1>3. at \in [Doc -> Place] /\ seen \in SUBSET Doc /\ remaining \in Int
  BY DEF RunInv, Types
<1>4. /\ at' \in [Doc -> Place] /\ at'[d] \in {"none", "reading"}
      /\ \A e \in Doc \ {d} : at'[e] = at[e]
  BY <1>2, <1>3 DEF Place
<1>5. Types'
  <2>1. seen' \in SUBSET Doc
    BY <1>2, <1>3
  <2>2. QED
    BY <1>1, <1>4, <2>1 DEF RunInv, Types
<1>6. SlotInv'
  <2>1. /\ Cardinality(Downloading') <= Cardinality(Downloading) + 1
        /\ Cardinality(Downloading) \in Nat /\ Cardinality(Downloading') \in Nat
    BY <1>4, OneMore DEF Downloading
  <2>2. /\ Cardinality(InFlight') <= Cardinality(InFlight)
        /\ Cardinality(InFlight) \in Nat /\ Cardinality(InFlight') \in Nat
    BY <1>4, NoMore DEF InFlight
  <2>3. Cardinality(InFlight) <= DocSlots /\ DocSlots \in Nat /\ DlSlots \in Nat
    BY RegistryAssumption DEF RunInv, SlotInv
  <2>4. QED
    BY <1>1, <2>1, <2>2, <2>3 DEF SlotInv
<1>7. BatchInv'
  BY <1>1, <1>4, BatchStays DEF RunInv
<1>8. BudgetInv'
  BY <1>1, <1>3, <1>4, BudgetStays DEF RunInv
<1>9. HandInv'
  BY <1>1, <1>4 DEF RunInv, HandInv
<1>10. MetInv'
  <2> SUFFICES ASSUME cmd = "ingest", ~Stopping, remaining > 0
               PROVE  /\ \A e \in seen' : row'[e] \in {"listed", "downloaded"} => at'[e] \in OnItsWay
                      /\ prod' = "closed" => Selectable' \subseteq seen'
                      /\ cons' # "drain"
    BY <1>1 DEF MetInv, Stopping
  <2>1. seen' = seen \cup {d} /\ at'[d] = "reading"
    BY <1>2, <1>3
  <2>2. \A e \in seen : row[e] \in {"listed", "downloaded"} => at[e] \in OnItsWay
    BY DEF RunInv, MetInv
  <2>3. cons # "drain" /\ prod # "closed"
    BY <1>1, TaskOfBatch DEF RunInv, MetInv
  <2>4. QED
    BY <1>1, <1>3, <1>4, <2>1, <2>2, <2>3 DEF OnItsWay
<1>11. ChanInv'
  BY <1>1, <1>4, LinesStay DEF RunInv
<1>12. PassInv'
  <2>1. d \notin seen /\ row[d] # "in_flight"
    BY <1>1 DEF RunInv, PassInv
  <2>2. \/ at'[d] = "none" /\ seen' = seen
        \/ at'[d] = "reading" /\ seen' = seen \cup {d}
    BY <1>2, <1>3
  <2>3. QED
    BY <1>1, <1>4, <2>1, <2>2 DEF RunInv, PassInv
<1>13. QED
  BY <1>5, <1>6, <1>7, <1>8, <1>9, <1>10, <1>11, <1>12 DEF RunInv

(* A task that sends its document or is done: what it does not spend stays in
   the budget. *)
LEMMA TaskKeeps ==
    ASSUME RunInv, NEW d \in Doc, at[d] \in {"reading", "fetching"}, Types',
           at'[d] \in {"unread", "fetching", "sent", "sending", "done", "unmarked"},
           \A e \in Doc \ {d} : at'[e] = at[e] /\ row'[e] = row[e],
           row'[d] \in {"listed", "downloaded"} => at'[d] \in OnItsWay,
           \/ remaining' = remaining
           \/ remaining' = remaining - 1 /\ at'[d] \in {"sent", "sending"},
           row'[d] = "in_flight" => row[d] = "in_flight",
           Buffered', ChanInv', prod' = prod, cons' = cons, seen' = seen, cmd' = cmd,
           stopRequested' = stopRequested, stopFlag => stopFlag'
    PROVE  RunInv'
<1>1. prod = "batch" /\ cons \notin {"settle", "gone"}
  BY TaskOfBatch
<1>2. SlotInv'
  BY SlotsStay, RegistryAssumption DEF RunInv
<1>3. BatchInv'
  BY <1>1 DEF BatchInv
<1>4. BudgetInv'
  <2>1. remaining \in Int
    BY DEF RunInv, Types
  <2>2. CASE remaining' = remaining
    BY <2>1, <2>2, BudgetStays DEF RunInv
  <2>3. ASSUME remaining' = remaining - 1, at'[d] \in {"sent", "sending"}
        PROVE  BudgetInv'
    <3>1. /\ Cardinality(Unspent') <= Cardinality(Unspent) - 1
          /\ Cardinality(Unspent) \in Nat /\ Cardinality(Unspent') \in Nat
      BY <2>3, OneLess DEF Unspent
    <3>2. QED
      BY <2>1, <2>3, <3>1 DEF RunInv, BudgetInv
  <2>4. QED
    BY <2>2, <2>3
<1>5. HandInv'
  BY <1>1 DEF RunInv, HandInv, Buffered
<1>6. MetInv'
  <2> SUFFICES ASSUME cmd = "ingest", ~Stopping, remaining' > 0
               PROVE  /\ \A e \in seen : row'[e] \in {"listed", "downloaded"} => at'[e] \in OnItsWay
                      /\ cons # "drain"
    BY <1>1 DEF MetInv, Stopping
  <2>1. remaining > 0 /\ seen \in SUBSET Doc
    BY DEF RunInv, Types
  <2>2. QED
    BY <2>1 DEF RunInv, MetInv
<1>7. PassInv'
  <2>1. d \in seen /\ row[d] # "in_flight"
    BY DEF RunInv, PassInv
  <2>2. QED
    BY <1>1, <2>1 DEF RunInv, PassInv
<1>8. QED
  BY <1>2, <1>3, <1>4, <1>5, <1>6, <1>7 DEF RunInv

LEMMA ReadKeeps == ASSUME RunInv, NEW d \in Doc, Read(d) PROVE RunInv'
<1>1. /\ at[d] = "reading"
      /\ UNCHANGED <<row, last, cmd, runs, stopRequested, day, listing, complete, prod, seen,
                     streak, infra, stopFlag, cons, processed, failed, autoStop>>
  BY DEF Read, runner, updater, consumer
<1>2. /\ Types /\ Buffered /\ ChanInv /\ at \in [Doc -> Place] /\ remaining \in Int
  BY DEF RunInv, Types, HandInv, Buffered
<1>3. CASE row[d] = "downloaded" /\ remaining' = remaining - 1 /\ Send(d)
  <2>1. /\ buffer' \in Seq(Doc) /\ Len(buffer') <= Capacity /\ parked' \in Seq(Doc)
        /\ at' \in [Doc -> Place] /\ at'[d] \in {"sent", "sending"}
        /\ \A e \in Doc \ {d} : at'[e] = at[e]
        /\ Buffered' /\ ChanInv'
    BY <1>1, <1>2, <1>3, SendFits, SendLines
  <2>2. Types'
    BY <1>1, <1>2, <1>3, <2>1 DEF Types
  <2>3. QED
    BY <1>1, <1>3, <2>1, <2>2, TaskKeeps DEF OnItsWay
<1>4. ASSUME UNCHANGED <<remaining, channel>>, NEW place \in {"fetching", "done", "unread"}, Move(d, place),
             place = "done" => row[d] \notin {"listed", "downloaded"}
      PROVE  RunInv'
  <2>1. /\ at' \in [Doc -> Place] /\ at'[d] = place
        /\ \A e \in Doc \ {d} : at'[e] = at[e]
        /\ buffer' = buffer /\ parked' = parked /\ remaining' = remaining
    BY <1>2, <1>4 DEF Move, Place, channel
  <2>2. Types'
    BY <1>1, <1>2, <2>1 DEF Types
  <2>3. Buffered' /\ ChanInv'
    BY <1>1, <1>2, <2>1, LinesStay DEF Buffered
  <2>4. QED
    BY <1>1, <1>4, <2>1, <2>2, <2>3, TaskKeeps DEF OnItsWay
<1>5. QED
  BY <1>3, <1>4 DEF Read

LEMMA DownloadedKeeps == ASSUME RunInv, NEW d \in Doc, Downloaded(d) PROVE RunInv'
<1>1. /\ at[d] = "fetching" /\ Send(d) /\ remaining' = remaining - 1 /\ streak' = 0
      /\ row' = [row EXCEPT ![d] = "downloaded"]
      /\ UNCHANGED <<last, cmd, runs, stopRequested, day, listing, complete, prod, seen,
                     infra, stopFlag, cons, processed, failed, autoStop>>
  BY DEF Downloaded, SetRow, runner, updater, consumer
<1>2. Types /\ Buffered /\ ChanInv /\ row \in [Doc -> Status] /\ remaining \in Int
  BY DEF RunInv, Types, HandInv, Buffered
<1>3. /\ buffer' \in Seq(Doc) /\ Len(buffer') <= Capacity /\ parked' \in Seq(Doc)
      /\ at' \in [Doc -> Place] /\ at'[d] \in {"sent", "sending"}
      /\ \A e \in Doc \ {d} : at'[e] = at[e]
      /\ Buffered' /\ ChanInv'
  BY <1>1, <1>2, SendFits, SendLines
<1>4. row' \in [Doc -> Status] /\ row'[d] = "downloaded" /\ \A e \in Doc \ {d} : row'[e] = row[e]
  BY <1>1, <1>2 DEF Status
<1>5. Types'
  BY <1>1, <1>2, <1>3, <1>4 DEF Types
<1>6. QED
  BY <1>1, <1>3, <1>4, <1>5, TaskKeeps DEF OnItsWay

LEMMA DownloadFailsKeeps ==
    ASSUME RunInv, NEW d \in Doc,
           NEW permanent \in BOOLEAN, NEW inWindow \in BOOLEAN, NEW marked \in BOOLEAN,
           DownloadFails(d, permanent, inWindow, marked)
    PROVE  RunInv'
<1>1. /\ at[d] = "fetching" /\ streak' \in {streak, streak + 1}
      /\ infra' \in BOOLEAN /\ stopFlag' \in BOOLEAN /\ (stopFlag => stopFlag')
      /\ UNCHANGED <<last, cmd, runs, stopRequested, day, listing, complete, prod, seen,
                     remaining, buffer, parked, cons, processed, failed, autoStop>>
  BY DEF DownloadFails, runner, updater, channel, consumer
<1>2. \/ row' = [row EXCEPT ![d] = "download_failed"] /\ at' = [at EXCEPT ![d] = "done"]
      \/ row' = row /\ at' = [at EXCEPT ![d] = "unmarked"]
  BY DEF DownloadFails, SetRow, Move
<1>3. Types /\ Buffered /\ ChanInv /\ row \in [Doc -> Status] /\ at \in [Doc -> Place] /\ streak \in Nat
  BY DEF RunInv, Types, HandInv, Buffered
<1>4. /\ row' \in [Doc -> Status] /\ at' \in [Doc -> Place]
      /\ \A e \in Doc \ {d} : at'[e] = at[e] /\ row'[e] = row[e]
      /\ at'[d] \in {"done", "unmarked"}
      /\ row'[d] \in {"listed", "downloaded"} => at'[d] = "unmarked"
      /\ row'[d] = "in_flight" => row[d] = "in_flight"
  BY <1>2, <1>3 DEF Status, Place
<1>5. Types'
  BY <1>1, <1>3, <1>4 DEF Types
<1>6. Buffered' /\ ChanInv'
  BY <1>1, <1>3, <1>4, LinesStay DEF Buffered
<1>7. QED
  BY <1>1, <1>4, <1>5, <1>6, TaskKeeps DEF OnItsWay

-----------------------------------------------------------------------------
(* The consumer. *)

LEMMA ReceiveKeeps == ASSUME RunInv, ReceiveItem PROVE RunInv'
<1>1. /\ cons \in {"receive", "drain"} /\ buffer # <<>>
      /\ UNCHANGED <<row, last, cmd, runs, stopRequested, day, listing, complete, prod, seen,
                     remaining, streak, infra, stopFlag, processed, failed, autoStop>>
  BY DEF ReceiveItem, runner, updater, producer
<1>2. PICK place \in {"acquiring", "discarded"} :
        /\ Receive(place)
        /\ place = "acquiring" => cons' = "acquire"
        /\ place = "discarded" => cons' = "drain" /\ (cons = "receive" => Stopping)
  BY DEF ReceiveItem
<1>3. Types /\ Buffered /\ ChanInv /\ at \in [Doc -> Place] /\ remaining \in Int
  BY DEF RunInv, Types, HandInv, Buffered
<1>4. /\ buffer' \in Seq(Doc) /\ Len(buffer') <= Capacity /\ parked' \in Seq(Doc)
      /\ at' \in [Doc -> Place]
      /\ \A e \in Doc :
           at'[e] = at[e] \/ at'[e] = "sent" \/ (e = Head(buffer) /\ at'[e] = place)
      /\ Buffered'
  BY <1>1, <1>2, <1>3, ReceiveFits
<1>5. Types'
  BY <1>1, <1>2, <1>3, <1>4 DEF Types
<1>6. SlotInv'
  BY <1>4, SlotsStay, RegistryAssumption DEF RunInv
<1>7. BatchInv'
  BY <1>1, <1>4, BatchStays DEF RunInv
<1>8. BudgetInv'
  BY <1>1, <1>3, <1>4, BudgetStays DEF RunInv
<1>9. HandInv'
  <2>1. \A e \in Doc : at[e] # "acquiring"
    BY <1>1 DEF RunInv, HandInv
  <2>2. \A e \in Doc : at'[e] = "acquiring" => e = Head(buffer) /\ place = "acquiring"
    BY <1>4, <2>1
  <2>3. cons' \in {"acquire", "drain"}
    BY <1>2
  <2>4. QED
    BY <1>2, <1>4, <2>2, <2>3 DEF HandInv, Buffered
<1>10. MetInv'
  <2> SUFFICES ASSUME cmd = "ingest", ~Stopping, remaining > 0
               PROVE  /\ \A e \in seen : row[e] \in {"listed", "downloaded"} => at'[e] \in OnItsWay
                      /\ prod = "closed" => Selectable' \subseteq seen
                      /\ cons' # "drain"
    BY <1>1 DEF MetInv, Stopping
  <2>1. place = "acquiring"
    BY <1>1, <1>2 DEF RunInv, MetInv
  <2>2. \A e \in seen : row[e] \in {"listed", "downloaded"} => at[e] \in OnItsWay
    BY DEF RunInv, MetInv
  <2>3. prod = "closed" => Selectable' \subseteq seen
    BY <1>1 DEF RunInv, MetInv, Selectable
  <2>4. seen \in SUBSET Doc
    BY <1>3 DEF Types
  <2>5. QED
    BY <1>2, <1>4, <2>1, <2>2, <2>3, <2>4 DEF OnItsWay
<1>11. /\ ChanInv'
       /\ \A e \in Doc : at'[e] # at[e] => at[e] \in {"sent", "sending"}
  BY <1>1, <1>2, <1>3, ReceiveLines
<1>12. PassInv'
  <2>1. \A e \in Doc : at'[e] = at[e] \/ (/\ at'[e] \in {"sent", "acquiring", "discarded"}
                                       /\ e \in seen /\ row[e] # "in_flight")
    BY <1>4, <1>11 DEF RunInv, PassInv
  <2>2. cons' # "gone"
    BY <1>2
  <2>3. QED
    BY <1>1, <2>1, <2>2 DEF RunInv, PassInv
<1>13. QED
  BY <1>5, <1>6, <1>7, <1>8, <1>9, <1>10, <1>11, <1>12 DEF RunInv

LEMMA ReceiveEndKeeps == ASSUME RunInv, ReceiveEnd PROVE RunInv'
<1>1. /\ cons \in {"receive", "drain"} /\ buffer = <<>> /\ prod = "closed" /\ cons' = "settle"
      /\ UNCHANGED <<row, last, cmd, runs, stopRequested, day, listing, complete, prod, seen,
                     remaining, streak, infra, stopFlag, buffer, parked, processed, failed,
                     autoStop, at>>
  BY DEF ReceiveEnd, runner, updater, producer, channel
<1>2. Types'
  BY <1>1 DEF RunInv, Types
<1>3. SlotInv' /\ BatchInv' /\ BudgetInv' /\ HandInv'
  BY <1>1 DEF RunInv, SlotInv, Downloading, InFlight, At, BatchInv, BudgetInv, Unspent, HandInv
<1>4. MetInv'
  BY <1>1 DEF RunInv, MetInv, Stopping, Selectable
<1>5. ChanInv' /\ PassInv'
  BY <1>1, LinesStay DEF RunInv, PassInv
<1>6. QED
  BY <1>2, <1>3, <1>4, <1>5 DEF RunInv

LEMMA SettleKeeps == ASSUME RunInv, Settle PROVE RunInv'
<1>1. /\ cons = "settle" /\ cons' = "gone" /\ InFlight = {}
      /\ UNCHANGED <<row, last, cmd, runs, stopRequested, day, listing, complete, prod, seen,
                     remaining, streak, infra, stopFlag, buffer, parked, processed, failed,
                     autoStop, at>>
  BY DEF Settle, runner, updater, producer, channel
<1>2. Types'
  BY <1>1 DEF RunInv, Types
<1>3. SlotInv' /\ BatchInv' /\ BudgetInv' /\ HandInv'
  BY <1>1 DEF RunInv, SlotInv, Downloading, InFlight, At, BatchInv, BudgetInv, Unspent, HandInv
<1>4. MetInv'
  BY <1>1 DEF RunInv, MetInv, Stopping, Selectable
<1>5. ChanInv'
  BY <1>1, LinesStay DEF RunInv
<1>6. PassInv'
  <2>1. \A d \in Doc : at[d] \notin {"running", "counted", "marking"}
    BY <1>1 DEF InFlight, At
  <2>2. QED
    BY <1>1, <2>1 DEF RunInv, PassInv
<1>7. QED
  BY <1>2, <1>3, <1>4, <1>5, <1>6 DEF RunInv

(* The document in hand goes into the pipeline: one more is in flight. *)
LEMMA AcquireKeeps == ASSUME RunInv, NEW d \in Doc, Acquire(d) PROVE RunInv'
<1>1. /\ cons = "acquire" /\ cons' = "receive" /\ at[d] = "acquiring"
      /\ Cardinality(InFlight) < DocSlots
      /\ UNCHANGED <<row, last, cmd, runs, stopRequested, day, listing, complete, prod, seen,
                     remaining, streak, infra, stopFlag, buffer, parked, processed, failed,
                     autoStop>>
  BY DEF Acquire, runner, updater, producer, channel
<1>2. at' = [at EXCEPT ![d] = IF Stopping THEN "discarded" ELSE "running"]
  BY DEF Acquire, Move
<1>3. at \in [Doc -> Place] /\ remaining \in Int
  BY DEF RunInv, Types
<1>4. /\ at' \in [Doc -> Place] /\ at'[d] \in {"discarded", "running"}
      /\ ~Stopping => at'[d] = "running"
      /\ \A e \in Doc \ {d} : at'[e] = at[e]
  BY <1>2, <1>3 DEF Place
<1>5. Types'
  BY <1>1, <1>4 DEF RunInv, Types
<1>6. SlotInv'
  <2>1. /\ Cardinality(InFlight') <= Cardinality(InFlight) + 1
        /\ Cardinality(InFlight) \in Nat /\ Cardinality(InFlight') \in Nat
    BY <1>4, OneMore DEF InFlight
  <2>2. /\ Cardinality(Downloading') <= Cardinality(Downloading)
        /\ Cardinality(Downloading) \in Nat /\ Cardinality(Downloading') \in Nat
    BY <1>4, NoMore DEF Downloading
  <2>3. Cardinality(Downloading) <= DlSlots /\ DocSlots \in Nat /\ DlSlots \in Nat
    BY RegistryAssumption DEF RunInv, SlotInv
  <2>4. QED
    BY <1>1, <2>1, <2>2, <2>3 DEF SlotInv
<1>7. BatchInv'
  BY <1>1, <1>4, BatchStays DEF RunInv
<1>8. BudgetInv'
  BY <1>1, <1>3, <1>4, BudgetStays DEF RunInv
<1>9. HandInv'
  <2>1. \A e \in Doc : at'[e] # "acquiring"
    BY <1>1, <1>4 DEF RunInv, HandInv
  <2>2. QED
    BY <1>1, <1>4, <2>1 DEF RunInv, HandInv
<1>10. MetInv'
  <2> SUFFICES ASSUME cmd = "ingest", ~Stopping, remaining > 0
               PROVE  /\ \A e \in seen : row'[e] \in {"listed", "downloaded"} => at'[e] \in OnItsWay
                      /\ prod = "closed" => Selectable' \subseteq seen
                      /\ cons' # "drain"
    BY <1>1 DEF MetInv, Stopping
  <2>1. at'[d] = "running" /\ seen \in SUBSET Doc
    BY <1>4 DEF RunInv, Types
  <2>2. \A e \in seen : row[e] \in {"listed", "downloaded"} => at[e] \in OnItsWay
    BY DEF RunInv, MetInv
  <2>3. prod = "closed" => Selectable' \subseteq seen
    BY <1>1 DEF RunInv, MetInv, Selectable
  <2>4. QED
    BY <1>1, <1>4, <2>1, <2>2, <2>3 DEF OnItsWay
<1>11. ChanInv'
  BY <1>1, <1>4, LinesStay DEF RunInv
<1>12. PassInv'
  BY <1>1, <1>4 DEF RunInv, PassInv
<1>13. QED
  BY <1>5, <1>6, <1>7, <1>8, <1>9, <1>10, <1>11, <1>12 DEF RunInv

(* A document in the pipeline moves on there, or is done. *)
LEMMA DocumentKeeps ==
    ASSUME RunInv, NEW d \in Doc, at[d] \in {"running", "counted", "marking"}, Types',
           at'[d] \in {"running", "rejected", "counted", "marking", "done"},
           \A e \in Doc \ {d} : at'[e] = at[e] /\ row'[e] = row[e],
           row'[d] \in {"listed", "downloaded"} =>
               \/ stopRequested
               \/ row[d] = row'[d] /\ (at'[d] \in {"running", "rejected"} \/ at[d] # "running"),
           row'[d] = "in_flight" => at'[d] \in {"running", "rejected"},
           UNCHANGED <<cmd, stopRequested, prod, seen, remaining, buffer, parked, cons>>,
           stopFlag => stopFlag'
    PROVE  RunInv'
<1>1. SlotInv'
  BY SlotsStay, RegistryAssumption DEF RunInv
<1>2. BatchInv'
  BY BatchStays DEF RunInv
<1>3. BudgetInv'
  BY BudgetStays DEF RunInv, Types
<1>4. HandInv'
  BY DEF RunInv, HandInv
<1>5. MetInv'
  <2> SUFFICES ASSUME cmd = "ingest", ~Stopping, remaining > 0
               PROVE  /\ \A e \in seen : row'[e] \in {"listed", "downloaded"} => at'[e] \in OnItsWay
                      /\ prod = "closed" => Selectable' \subseteq seen
                      /\ cons # "drain"
    BY DEF MetInv, Stopping
  <2>1. /\ \A e \in seen : row[e] \in {"listed", "downloaded"} => at[e] \in OnItsWay
        /\ prod = "closed" => Selectable \subseteq seen
        /\ cons # "drain"
    BY DEF RunInv, MetInv
  <2>2. seen \in SUBSET Doc
    BY DEF RunInv, Types
  <2>3. Selectable' \subseteq Selectable
    BY DEF Selectable, Stopping
  <2>4. d \in seen /\ row'[d] \in {"listed", "downloaded"} => at'[d] \in OnItsWay
    BY <2>1 DEF OnItsWay, Stopping
  <2>5. QED
    BY <2>1, <2>2, <2>3, <2>4
<1>6. ChanInv'
  BY LinesStay DEF RunInv
<1>7. PassInv'
  <2>1. cons # "gone" /\ d \in seen
    BY DEF RunInv, PassInv
  <2>2. QED
    BY <2>1 DEF RunInv, PassInv
<1>8. QED
  BY <1>1, <1>2, <1>3, <1>4, <1>5, <1>6, <1>7 DEF RunInv

LEMMA ResultKeeps == ASSUME RunInv, NEW d \in Doc, Result(d) PROVE RunInv'
<1>1. /\ at[d] = "running" /\ at' = [at EXCEPT ![d] = "counted"]
      /\ UNCHANGED <<last, cmd, runs, stopRequested, day, listing, complete, prod, seen,
                     remaining, streak, infra, stopFlag, buffer, parked, cons, autoStop>>
  BY DEF Result, Move, runner, updater, producer, channel
<1>2. PICK status \in {"ready", "failed", "duplicate"} :
        /\ row' = [row EXCEPT ![d] = status]
        /\ processed' \in {processed, processed + 1} /\ failed' \in {failed, failed + 1}
  BY DEF Result, SetRow
<1>3. /\ at \in [Doc -> Place] /\ row \in [Doc -> Status] /\ processed \in Nat /\ failed \in Nat
  BY DEF RunInv, Types
<1>4. /\ at' \in [Doc -> Place] /\ row' \in [Doc -> Status] /\ at'[d] = "counted" /\ row'[d] = status
      /\ \A e \in Doc \ {d} : at'[e] = at[e] /\ row'[e] = row[e]
  BY <1>1, <1>2, <1>3 DEF Place, Status
<1>5. Types'
  BY <1>1, <1>2, <1>3, <1>4 DEF RunInv, Types
<1>6. QED
  BY <1>1, <1>4, <1>5, DocumentKeeps

LEMMA BeginKeeps == ASSUME RunInv, NEW d \in Doc, Begin(d) PROVE RunInv'
<1>1. /\ at[d] = "running" /\ row' = [row EXCEPT ![d] = "in_flight"]
      /\ UNCHANGED <<last, cmd, runs, stopRequested, day, listing, complete, prod, seen,
                     remaining, streak, infra, stopFlag, buffer, parked, cons, processed, failed,
                     autoStop, at>>
  BY DEF Begin, SetRow, runner, updater, ingest, producer, channel, consumer
<1>2. /\ row' \in [Doc -> Status] /\ row'[d] = "in_flight"
      /\ \A e \in Doc \ {d} : row'[e] = row[e]
  BY <1>1 DEF RunInv, Types, Status
<1>3. Types'
  BY <1>1, <1>2 DEF RunInv, Types
<1>4. QED
  BY <1>1, <1>2, <1>3, DocumentKeeps

LEMMA StoppedKeeps == ASSUME RunInv, NEW d \in Doc, Stopped(d) PROVE RunInv'
<1>1. /\ at[d] = "running" /\ stopRequested
      /\ at' = [at EXCEPT ![d] = "counted"] /\ row' = [row EXCEPT ![d] = "downloaded"]
      /\ UNCHANGED <<last, cmd, runs, stopRequested, day, listing, complete, prod, seen,
                     remaining, streak, infra, stopFlag, buffer, parked, cons, processed, failed,
                     autoStop>>
  BY DEF Stopped, Move, SetRow, runner, updater, producer, channel, consumer
<1>2. /\ at' \in [Doc -> Place] /\ row' \in [Doc -> Status]
      /\ at'[d] = "counted" /\ row'[d] = "downloaded"
      /\ \A e \in Doc \ {d} : at'[e] = at[e] /\ row'[e] = row[e]
  BY <1>1 DEF RunInv, Types, Place, Status
<1>3. Types'
  BY <1>1, <1>2 DEF RunInv, Types
<1>4. QED
  BY <1>1, <1>2, <1>3, DocumentKeeps

LEMMA RejectsKeeps == ASSUME RunInv, NEW d \in Doc, Rejects(d) PROVE RunInv'
<1>1. /\ at[d] = "running" /\ at' = [at EXCEPT ![d] = "rejected"]
      /\ UNCHANGED <<row, last, cmd, runs, stopRequested, day, listing, complete, prod, seen,
                     remaining, streak, infra, stopFlag, buffer, parked, cons, processed, failed,
                     autoStop>>
  BY DEF Rejects, Move, runner, updater, producer, channel, consumer
<1>2. /\ at' \in [Doc -> Place] /\ at'[d] = "rejected"
      /\ \A e \in Doc \ {d} : at'[e] = at[e]
  BY <1>1 DEF RunInv, Types, Place
<1>3. Types'
  BY <1>1, <1>2 DEF RunInv, Types
<1>4. QED
  BY <1>1, <1>2, <1>3, DocumentKeeps

LEMMA CountKeeps == ASSUME RunInv, NEW d \in Doc, Progress(d) \/ Mark(d) PROVE RunInv'
<1>1. /\ at[d] \in {"counted", "marking"}
      /\ \E place \in {"marking", "done"} : at' = [at EXCEPT ![d] = place]
      /\ UNCHANGED <<row, last, cmd, runs, stopRequested, day, listing, complete, prod, seen,
                     remaining, streak, infra, buffer, parked, cons, processed, failed>>
  BY DEF Progress, Mark, Move, runner, updater, producer, channel, consumer
<1>2. \/ stopFlag' = stopFlag /\ autoStop' = autoStop
      \/ stopFlag' = TRUE /\ autoStop' = TRUE
  BY DEF Progress, Mark, consumer
<1>3. at \in [Doc -> Place] /\ stopFlag \in BOOLEAN /\ autoStop \in BOOLEAN
  BY DEF RunInv, Types
<1>4. at' \in [Doc -> Place] /\ at'[d] \in {"marking", "done"} /\ \A e \in Doc \ {d} : at'[e] = at[e]
  BY <1>1, <1>3 DEF Place
<1>5. stopFlag' \in BOOLEAN /\ autoStop' \in BOOLEAN /\ (stopFlag => stopFlag')
  BY <1>2, <1>3
<1>6. Types'
  BY <1>1, <1>4, <1>5 DEF RunInv, Types
<1>7. row[d] # "in_flight"
  BY <1>1 DEF RunInv, PassInv
<1>8. QED
  BY <1>1, <1>4, <1>5, <1>6, <1>7, DocumentKeeps

-----------------------------------------------------------------------------
(* Every step keeps the invariant, and the properties follow. *)

LEMMA NextKeeps == ASSUME RunInv, [Next]_vars PROVE RunInv'
<1>1. CASE StartIngest
  BY <1>1, StartIngestKeeps
<1>2. CASE StartUpdate
  BY <1>2, UpdateKeeps
<1>3. CASE Stop
  BY <1>3, StopKeeps
<1>4. CASE Crash
  BY <1>4, CrashKeeps
<1>5. CASE Finalize
  BY <1>5, FinalizeKeeps
<1>6. CASE Updater
  BY <1>6, UpdateKeeps
<1>7. CASE Producer
  <2>1. CASE Select
    BY <2>1, SelectKeeps
  <2>2. CASE SelectFails
    BY <2>2, SelectFailsKeeps
  <2>3. CASE BatchEnds
    BY <2>3, BatchEndsKeeps
  <2>4. ASSUME NEW d \in Doc, Take(d) \/ Read(d) \/ Downloaded(d)
        PROVE  RunInv'
    BY <2>4, TakeKeeps, ReadKeeps, DownloadedKeeps
  <2>5. ASSUME NEW d \in Doc, NEW permanent \in BOOLEAN, NEW inWindow \in BOOLEAN,
               NEW marked \in BOOLEAN, DownloadFails(d, permanent, inWindow, marked)
        PROVE  RunInv'
    BY <2>5, DownloadFailsKeeps
  <2>6. QED
    BY <1>7, <2>1, <2>2, <2>3, <2>4, <2>5 DEF Producer
<1>8. CASE Consumer
  <2>1. CASE ReceiveItem
    BY <2>1, ReceiveKeeps
  <2>2. CASE ReceiveEnd
    BY <2>2, ReceiveEndKeeps
  <2>3. CASE Settle
    BY <2>3, SettleKeeps
  <2>4. ASSUME NEW d \in Doc, Acquire(d) \/ Pipeline(d)
        PROVE  RunInv'
    BY <2>4, AcquireKeeps, BeginKeeps, ResultKeeps, StoppedKeeps, RejectsKeeps, CountKeeps
       DEF Pipeline
  <2>5. QED
    BY <1>8, <2>1, <2>2, <2>3, <2>4 DEF Consumer
<1>9. CASE UNCHANGED vars
  <2>1. UNCHANGED <<row, last, cmd, runs, stopRequested, day, listing, complete, prod, seen,
                    remaining, streak, infra, stopFlag, buffer, parked, cons, processed, failed,
                    autoStop, at>>
    BY <1>9 DEF vars, runner, updater, ingest, producer, channel, consumer
  <2>2. Types'
    BY <2>1 DEF RunInv, Types
  <2>3. SlotInv' /\ BatchInv' /\ BudgetInv' /\ HandInv'
    BY <2>1 DEF RunInv, SlotInv, Downloading, InFlight, At, BatchInv, BudgetInv, Unspent, HandInv
  <2>4. MetInv'
    BY <2>1 DEF RunInv, MetInv, Stopping, Selectable
  <2>5. ChanInv' /\ PassInv'
    BY <2>1, LinesStay DEF RunInv, PassInv
  <2>6. QED
    BY <2>2, <2>3, <2>4, <2>5 DEF RunInv
<1>10. QED
  BY <1>1, <1>2, <1>3, <1>4, <1>5, <1>6, <1>7, <1>8, <1>9 DEF Next

LEMMA InitKeeps == ASSUME Init PROVE RunInv
<1>1. <<>> \in Seq(Doc) /\ Len(<<>>) = 0
  OBVIOUS
<1>2. Types
  <2>1. buffer \in Seq(Doc) /\ parked \in Seq(Doc) /\ Len(buffer) <= Capacity
    BY <1>1, RegistryAssumption DEF Init
  <2>2. row \in [Doc -> Status] /\ at \in [Doc -> Place]
    BY DEF Init, Status, Place
  <2>3. runs \in 0..MaxRuns /\ day \in 1..Days + 1
    BY RegistryAssumption DEF Init
  <2>4. /\ last = "none" /\ cmd = "none" /\ stopRequested \in BOOLEAN
        /\ listing = {} /\ complete = {} /\ prod = "closed" /\ seen = {} /\ cons = "gone"
    BY DEF Init
  <2>5. remaining \in Int /\ streak \in Nat /\ processed \in Nat /\ failed \in Nat
    BY DEF Init
  <2>6. infra \in BOOLEAN /\ stopFlag \in BOOLEAN /\ autoStop \in BOOLEAN
    BY DEF Init
  <2>7. QED
    BY <2>1, <2>2, <2>3, <2>4, <2>5, <2>6 DEF Types
<1>3. Downloading = {} /\ InFlight = {} /\ Unspent = {}
      /\ At({"queued", "reading", "fetching", "sending"}) = {}
  BY DEF Init, Downloading, InFlight, Unspent, At
<1>4. SlotInv /\ BatchInv /\ BudgetInv
  BY <1>3, FS_EmptySet, RegistryAssumption DEF SlotInv, BatchInv, BudgetInv, Init
<1>5. HandInv /\ MetInv
  BY DEF Init, HandInv, MetInv
<1>6. ChanInv
  BY <1>1 DEF Init, ChanInv, Lined
<1>7. PassInv
  BY DEF Init, PassInv
<1>8. QED
  BY <1>2, <1>4, <1>5, <1>6, <1>7 DEF RunInv

(* The invariant holds of every run. *)
LEMMA RunInvariant == Spec => []RunInv
<1>1. Init => RunInv
  BY InitKeeps
<1>2. RunInv /\ [Next]_vars => RunInv'
  BY NextKeeps
<1>3. QED
  BY <1>1, <1>2, PTL DEF Spec

(* Every variable keeps its type; the channel never holds more than its
   capacity, and no more documents are downloaded or processed at a time than
   the two semaphores have slots, whatever fails (Channel.ts, Semaphore.ts and
   their use by the registry run of RunnerService.ts). *)
THEOREM TypeCorrect == Spec => []TypeOK
<1>1. RunInv => TypeOK
  BY DEF RunInv, Types, SlotInv, TypeOK
<1>2. QED
  BY <1>1, RunInvariant, PTL

(* A run takes no more documents than its limit, although its tasks test the
   budget before the download and spend it after: a batch is cut to the budget,
   and all of it is settled before the next one is selected
   (produceRegistryDownloads). *)
THEOREM BudgetHolds == Spec => []BudgetKept
<1>1. RunInv => BudgetKept
  <2>1. Unspent \in SUBSET Doc
    BY DEF Unspent, At
  <2>2. Cardinality(Unspent) \in Nat
    BY <2>1, FiniteDocs
  <2>3. QED
    BY <2>2 DEF RunInv, Types, BudgetInv, BudgetKept
<1>2. QED
  BY <1>1, RunInvariant, PTL

(* When producer and consumer of a run are through, stopped or not, no document
   it took up is left in the middle of the pipeline but one whose status could
   not be written; and without a stop and with budget left, none is left to
   select but those that could not be read, marked after a failed download, or
   begun: nothing is lost on the way from the selection through the downloads
   and the channel to the pipeline (produceRegistryDownloads, runIngest). *)
THEOREM NothingLeft == Spec => []SelfResuming
<1>1. ASSUME RunInv, cmd = "ingest", prod = "closed", cons = "gone", NEW d \in seen, row[d] = "in_flight"
      PROVE  at[d] = "rejected"
  <2>1. d \in Doc
    BY <1>1 DEF RunInv, Types
  <2>2. QED
    BY <1>1, <2>1 DEF RunInv, PassInv
<1>2. ASSUME RunInv, cmd = "ingest", prod = "closed", cons = "gone", ~Stopping, remaining > 0,
             NEW d \in Selectable
      PROVE  d \in At({"unread", "unmarked", "rejected"})
  <2>1. d \in Doc /\ d \in seen /\ at[d] \in OnItsWay
    BY <1>2 DEF RunInv, MetInv, Selectable
  <2>2. at[d] \notin {"reading", "fetching", "sending"}
    BY <1>2, <2>1 DEF RunInv, BatchInv, At
  <2>3. at[d] \notin {"acquiring", "running"}
    BY <1>2, <2>1 DEF RunInv, HandInv, PassInv
  <2>4. at[d] # "sent"
    <3>1. buffer = <<>> /\ Len(<<>>) = 0
      BY <1>2 DEF RunInv, HandInv
    <3>2. ~ \E i \in 1..Len(buffer) : buffer[i] = d
      BY <3>1
    <3>3. QED
      BY <1>2, <2>1, <3>2 DEF RunInv, HandInv
  <2>5. QED
    BY <2>1, <2>2, <2>3, <2>4 DEF OnItsWay, At
<1>3. RunInv => SelfResuming
  BY <1>1, <1>2 DEF SelfResuming
<1>4. QED
  BY <1>3, RunInvariant, PTL

-----------------------------------------------------------------------------
(* The inductive invariant of the versions. *)

Point == [there : BOOLEAN, latest : BOOLEAN, deleted : BOOLEAN]

StoreTypes ==
    /\ version \in [Document -> Nat]
    /\ rows \in [Document -> {"none", "latest", "old"}]
    /\ points \in [Document -> Point]
    /\ pc \in [Document -> {"idle", "upsert", "select", "update", "flag"}]
    /\ todo \in [Document -> SUBSET Document]
    /\ disorder \in BOOLEAN /\ lost \in BOOLEAN

(* Rows come before points, and without points there is no flag. *)
RowsFirst ==
    \A d \in Document :
        /\ rows[d] # "none" => d \in Created
        /\ points[d].there => rows[d] # "none"
        /\ points[d].latest => points[d].there

(* An indexing takes the flag from older versions only, and only when its own
   points are in place. *)
OlderOnly ==
    \A d \in Document :
        /\ pc[d] # "idle" => d \in Created /\ rows[d] # "none"
        /\ pc[d] \in {"select", "update", "flag"} => points[d].there
        /\ pc[d] \in {"update", "flag"} => todo[d] \subseteq Older(d)

(* What an indexing has done to a version below it, step by step. *)
Retired(e, d) ==
    /\ pc[e] = "update" => d \in todo[e] \/ rows[d] = "none"
    /\ pc[e] = "flag" => rows[d] # "latest" /\ (d \in todo[e] \/ ~points[d].latest)
    /\ pc[e] = "idle" => rows[d] # "latest" /\ ~points[d].latest

(* One version at a time, and never one that is not the newest with rows. *)
OneByOne ==
    \A d, e \in Document :
        pc[d] # "idle" /\ d # e =>
            /\ pc[e] = "idle"
            /\ rows[e] # "none" => version[e] < version[d]

(* Without disorder or loss, what is below a version that has rows is retired. *)
InOrder ==
    ~disorder /\ ~lost =>
        /\ OneByOne
        /\ \A d, e \in Created : version[d] < version[e] /\ rows[e] # "none" => Retired(e, d)

VersionInv == StoreTypes /\ RowsFirst /\ OlderOnly /\ InOrder

-----------------------------------------------------------------------------
(* The first states satisfy the invariant. *)
LEMMA VersionsStart == VersionsInit => VersionInv
<1> SUFFICES ASSUME VersionsInit
             PROVE  VersionInv
  OBVIOUS
<1>1. StoreTypes
  BY DEF VersionsInit, EmptyStores, StoreTypes, NoPoints, Point
<1>2. \A d \in Document : /\ rows[d] = "none" /\ pc[d] = "idle"
                         /\ ~points[d].there /\ ~points[d].latest
  BY DEF VersionsInit, EmptyStores, NoPoints
<1>3. QED
  BY <1>1, <1>2 DEF VersionInv, RowsFirst, OlderOnly, InOrder, OneByOne, Created

(* A new version has neither rows nor points, and nobody has it to flag. *)
LEMMA VersionCreated ==
    ASSUME VersionInv, NEW d \in Document, NEW p \in Document, CreateVersion(d, p)
    PROVE  VersionInv'
<1>1. /\ version[d] = 0 /\ version[p] \in Nat \ {0}
      /\ version' = [version EXCEPT ![d] = version[p] + 1]
      /\ UNCHANGED <<rows, points, pc, todo, disorder, lost>>
  BY DEF VersionInv, StoreTypes, CreateVersion, Created, indexer, history
<1>2. version' \in [Document -> Nat] /\ Created' = Created \cup {d} /\ d \notin Created
  BY <1>1 DEF VersionInv, StoreTypes, Created
<1>3. \A e \in Created : version'[e] = version[e]
  BY <1>1, <1>2 DEF Created
<1>4. StoreTypes' /\ RowsFirst'
  BY <1>1, <1>2 DEF VersionInv, StoreTypes, RowsFirst
<1>5. \A e \in Created : Older(e) \subseteq Older(e)'
  BY <1>2, <1>3 DEF Older
<1>6. OlderOnly'
  BY <1>1, <1>2, <1>5 DEF VersionInv, OlderOnly
<1>7. rows[d] = "none" /\ ~points[d].latest
  BY <1>2 DEF VersionInv, RowsFirst
<1>8. OneByOne => OneByOne'
  BY <1>1, <1>3, <1>7 DEF VersionInv, OneByOne, OlderOnly, RowsFirst
<1>9. ASSUME ~disorder', ~lost', NEW c \in Created', NEW e \in Created',
             version'[c] < version'[e], rows'[e] # "none"
      PROVE  Retired(e, c)'
  <2>1. e \in Created
    BY <1>1, <1>2, <1>7, <1>9
  <2>2. CASE c = d
    BY <1>1, <1>7, <2>2 DEF Retired
  <2>3. CASE c # d
    BY <1>1, <1>2, <1>3, <1>9, <2>1, <2>3 DEF VersionInv, InOrder, Retired
  <2>4. QED
    BY <2>2, <2>3
<1>10. QED
  BY <1>1, <1>4, <1>6, <1>8, <1>9 DEF VersionInv, InOrder

-----------------------------------------------------------------------------
(* The steps of an indexing. *)

(* What a step without a new version leaves alone. *)
LEMMA SameVersions ==
    ASSUME version' = version
    PROVE  Created' = Created /\ \A d \in Document : Older(d)' = Older(d)
  BY DEF Created, Older

(* The rows of a version are new and latest, and its points may have gone. *)
LEMMA RowsIndexed ==
    ASSUME VersionInv, NEW d \in Document, IndexRows(d)
    PROVE  VersionInv'
<1>1. /\ pc[d] = "idle" /\ d \in Created /\ version' = version /\ todo' = todo /\ lost' = lost
      /\ pc' = [pc EXCEPT ![d] = "upsert"]
      /\ disorder' = (disorder \/ \E e \in Created \ {d} :
                        pc[e] # "idle" \/ (version[e] >= version[d] /\ rows[e] # "none"))
      /\ \/ /\ rows' = [rows EXCEPT ![d] = "latest"]
            /\ points' = [points EXCEPT ![d] = NoPoints] \/ points' = points
         \/ rows[d] # "none" /\ rows' = rows /\ points' = points
  BY DEF IndexRows, Goto
<1>2. Created' = Created /\ \A e \in Document : Older(e)' = Older(e)
  BY <1>1, SameVersions
<1>3. /\ rows' \in [Document -> {"none", "latest", "old"}] /\ rows'[d] # "none"
      /\ points' \in [Document -> Point]
      /\ \A e \in Document \ {d} : rows'[e] = rows[e] /\ points'[e] = points[e]
      /\ points'[d] \in {NoPoints, points[d]}
  <2>1. rows' \in [Document -> {"none", "latest", "old"}] /\ rows'[d] # "none"
    BY <1>1 DEF VersionInv, StoreTypes
  <2>2. NoPoints \in Point /\ points \in [Document -> Point]
    BY DEF VersionInv, StoreTypes, NoPoints, Point
  <2>3. /\ points' \in [Document -> Point] /\ points'[d] \in {NoPoints, points[d]}
        /\ \A e \in Document \ {d} : points'[e] = points[e]
    BY <1>1, <2>2
  <2>4. \A e \in Document \ {d} : rows'[e] = rows[e]
    BY <1>1 DEF VersionInv, StoreTypes
  <2>5. QED
    BY <2>1, <2>3, <2>4
<1>4. StoreTypes'
  BY <1>1, <1>3 DEF VersionInv, StoreTypes
<1>5. RowsFirst'
  BY <1>1, <1>2, <1>3 DEF VersionInv, StoreTypes, RowsFirst, NoPoints
<1>6. OlderOnly'
  BY <1>1, <1>2, <1>3 DEF VersionInv, StoreTypes, OlderOnly
<1>7. ASSUME ~disorder', ~lost'
      PROVE  OneByOne' /\ \A c, e \in Created' :
                version'[c] < version'[e] /\ rows'[e] # "none" => Retired(e, c)'
  <2>1. ~disorder /\ ~lost
    BY <1>1, <1>7 DEF VersionInv, StoreTypes
  <2>2. \A e \in Document \ {d} : pc[e] = "idle" /\ (rows[e] # "none" => version[e] < version[d])
    <3>1. \A e \in Created \ {d} : pc[e] = "idle" /\ (rows[e] # "none" => ~(version[e] >= version[d]))
      BY <1>1, <1>7
    <3>2. QED
      BY <3>1 DEF VersionInv, StoreTypes, RowsFirst, OlderOnly
  <2>3. OneByOne'
    BY <1>1, <1>3, <2>2 DEF VersionInv, StoreTypes, OneByOne
  <2>4. ASSUME NEW c \in Created, NEW e \in Created, version[c] < version[e], rows'[e] # "none"
        PROVE  Retired(e, c)'
    <3>1. CASE e = d
      BY <1>1, <3>1 DEF VersionInv, StoreTypes, Retired
    <3>2. CASE e # d
      <4>1. c # d
        BY <1>3, <2>2, <2>4, <3>2 DEF VersionInv, StoreTypes, Created
      <4>2. QED
        BY <1>1, <1>3, <2>1, <2>4, <3>2, <4>1 DEF VersionInv, StoreTypes, InOrder, Retired, Created
    <3>3. QED
      BY <3>1, <3>2
  <2>5. QED
    BY <1>1, <1>2, <2>3, <2>4
<1>8. QED
  BY <1>4, <1>5, <1>6, <1>7 DEF VersionInv, InOrder

(* The points of a version are in place, before any flag is taken. *)
LEMMA PointsSent ==
    ASSUME VersionInv, NEW d \in Document, Upsert(d)
    PROVE  VersionInv'
<1>1. /\ pc[d] = "upsert" /\ UNCHANGED <<version, rows, todo, disorder, lost>>
      /\ points' = [points EXCEPT ![d] = [there |-> TRUE, latest |-> TRUE, deleted |-> FALSE]]
      /\ pc' = [pc EXCEPT ![d] = IF version[d] > 1 THEN "select" ELSE "idle"]
  BY DEF Upsert, Goto, postgres, history
<1>2. Created' = Created /\ \A e \in Document : Older(e)' = Older(e)
  BY <1>1, SameVersions
<1>3. /\ points' \in [Document -> Point] /\ points'[d].there
      /\ \A e \in Document \ {d} : points'[e] = points[e] /\ pc'[e] = pc[e]
      /\ pc'[d] \in {"select", "idle"} /\ (pc'[d] = "idle" => version[d] <= 1)
  BY <1>1 DEF VersionInv, StoreTypes, Point
<1>4. StoreTypes'
  BY <1>1, <1>3 DEF VersionInv, StoreTypes
<1>5. d \in Created
  BY <1>1 DEF VersionInv, OlderOnly
<1>6. OlderOnly'
  BY <1>1, <1>2, <1>3, <1>5 DEF VersionInv, OlderOnly
<1>7. rows[d] # "none"
  BY <1>1 DEF VersionInv, OlderOnly
<1>8. RowsFirst'
  BY <1>1, <1>2, <1>3, <1>7 DEF VersionInv, RowsFirst
<1>9. ASSUME ~disorder', ~lost'
      PROVE  OneByOne' /\ \A c, e \in Created' :
                version'[c] < version'[e] /\ rows'[e] # "none" => Retired(e, c)'
  <2>1. OneByOne /\ \A c, e \in Created : version[c] < version[e] /\ rows[e] # "none" => Retired(e, c)
    BY <1>1, <1>9 DEF VersionInv, InOrder
  <2>2. OneByOne'
    BY <1>1, <1>3, <2>1 DEF OneByOne
  <2>3. ASSUME NEW c \in Created, NEW e \in Created, version[c] < version[e], rows[e] # "none"
        PROVE  Retired(e, c)'
    <3>1. CASE e = d
      <4>1. version[c] \in Nat \ {0} /\ version[d] \in Nat
        BY DEF VersionInv, StoreTypes, Created
      <4>2. pc'[d] = "select"
        BY <1>3, <2>3, <3>1, <4>1
      <4>3. QED
        BY <3>1, <4>2 DEF Retired
    <3>2. CASE e # d
      <4>1. c # d
        BY <1>1, <2>1, <2>3, <3>2 DEF OneByOne, VersionInv, StoreTypes, Created
      <4>2. QED
        BY <1>1, <1>3, <2>1, <2>3, <3>2, <4>1 DEF Retired, Created
    <3>3. QED
      BY <3>1, <3>2
  <2>4. QED
    BY <1>1, <1>2, <2>2, <2>3
<1>10. QED
  BY <1>4, <1>6, <1>8, <1>9 DEF VersionInv, InOrder

(* The older versions are looked up; without one the indexing is over. *)
LEMMA OlderSelected ==
    ASSUME VersionInv, NEW d \in Document, SelectOlder(d)
    PROVE  VersionInv'
<1>1. /\ pc[d] = "select" /\ UNCHANGED <<version, rows, points, disorder, lost>>
      /\ todo' = [todo EXCEPT ![d] = Older(d)]
      /\ pc' = [pc EXCEPT ![d] = IF todo'[d] = {} THEN "idle" ELSE "update"]
  BY DEF SelectOlder, Goto, postgres, history
<1>2. Created' = Created /\ \A e \in Document : Older(e)' = Older(e)
  BY <1>1, SameVersions
<1>3. /\ todo' \in [Document -> SUBSET Document] /\ todo'[d] = Older(d)
      /\ \A e \in Document \ {d} : todo'[e] = todo[e] /\ pc'[e] = pc[e]
      /\ pc'[d] \in {"update", "idle"} /\ (pc'[d] = "idle" => Older(d) = {})
  BY <1>1 DEF VersionInv, StoreTypes, Older, Created
<1>4. StoreTypes' /\ RowsFirst'
  BY <1>1, <1>2, <1>3 DEF VersionInv, StoreTypes, RowsFirst
<1>5. OlderOnly'
  BY <1>1, <1>2, <1>3 DEF VersionInv, OlderOnly
<1>6. ASSUME ~disorder', ~lost'
      PROVE  OneByOne' /\ \A c, e \in Created' :
                version'[c] < version'[e] /\ rows'[e] # "none" => Retired(e, c)'
  <2>1. OneByOne /\ \A c, e \in Created : version[c] < version[e] /\ rows[e] # "none" => Retired(e, c)
    BY <1>1, <1>6 DEF VersionInv, InOrder
  <2>2. OneByOne'
    BY <1>1, <1>3, <2>1 DEF OneByOne
  <2>3. ASSUME NEW c \in Created, NEW e \in Created, version[c] < version[e], rows[e] # "none"
        PROVE  Retired(e, c)'
    <3>1. CASE e = d
      BY <1>3, <2>3, <3>1 DEF Retired, Older
    <3>2. CASE e # d
      BY <1>1, <1>3, <2>1, <2>3, <3>2 DEF Retired, Created
    <3>3. QED
      BY <3>1, <3>2
  <2>4. QED
    BY <1>1, <1>2, <2>2, <2>3
<1>7. QED
  BY <1>4, <1>5, <1>6 DEF VersionInv, InOrder

(* The rows of the older versions lose their flag. *)
LEMMA RowsUpdated ==
    ASSUME VersionInv, NEW d \in Document, UpdateRows(d)
    PROVE  VersionInv'
<1>1. /\ pc[d] = "update" /\ UNCHANGED <<version, points, todo, disorder, lost>>
      /\ rows' = [e \in Document |-> IF e \in todo[d] /\ rows[e] = "latest" THEN "old" ELSE rows[e]]
      /\ pc' = [pc EXCEPT ![d] = "flag"]
  BY DEF UpdateRows, Goto, history
<1>2. Created' = Created /\ \A e \in Document : Older(e)' = Older(e)
  BY <1>1, SameVersions
<1>3. /\ rows' \in [Document -> {"none", "latest", "old"}]
      /\ \A e \in Document : /\ rows'[e] = "none" <=> rows[e] = "none"
                             /\ rows[e] # "latest" => rows'[e] # "latest"
                             /\ e \in todo[d] => rows'[e] # "latest"
      /\ pc'[d] = "flag" /\ \A e \in Document \ {d} : pc'[e] = pc[e]
  BY <1>1 DEF VersionInv, StoreTypes
<1>4. StoreTypes' /\ RowsFirst'
  BY <1>1, <1>2, <1>3 DEF VersionInv, StoreTypes, RowsFirst
<1>5. OlderOnly'
  BY <1>1, <1>2, <1>3 DEF VersionInv, OlderOnly
<1>6. ASSUME ~disorder', ~lost'
      PROVE  OneByOne' /\ \A c, e \in Created' :
                version'[c] < version'[e] /\ rows'[e] # "none" => Retired(e, c)'
  <2>1. OneByOne /\ \A c, e \in Created : version[c] < version[e] /\ rows[e] # "none" => Retired(e, c)
    BY <1>1, <1>6 DEF VersionInv, InOrder
  <2>2. OneByOne'
    BY <1>1, <1>3, <2>1 DEF OneByOne
  <2>3. ASSUME NEW c \in Created, NEW e \in Created, version[c] < version[e], rows[e] # "none"
        PROVE  Retired(e, c)'
    <3>1. c \in Document /\ e \in Document /\ Retired(e, c)
      BY <2>1, <2>3 DEF Created
    <3>2. CASE e = d
      <4>1. c \in todo[d] \/ rows[c] = "none"
        BY <1>1, <3>1, <3>2 DEF Retired
      <4>2. rows'[c] # "latest"
        BY <1>3, <3>1, <4>1
      <4>3. c \in todo'[d] \/ ~points'[c].latest
        BY <1>1, <3>1, <4>1 DEF VersionInv, RowsFirst
      <4>4. QED
        BY <1>3, <3>2, <4>2, <4>3 DEF Retired
    <3>3. CASE e # d
      BY <1>1, <1>3, <3>1, <3>3 DEF Retired
    <3>4. QED
      BY <3>2, <3>3
  <2>4. \A e \in Created : rows'[e] # "none" => rows[e] # "none"
    BY <1>3 DEF Created
  <2>5. QED
    BY <1>1, <1>2, <2>2, <2>3, <2>4
<1>7. QED
  BY <1>4, <1>5, <1>6 DEF VersionInv, InOrder

(* The points of one older version lose their flag, or the loss is noted. *)
LEMMA PointsFlagged ==
    ASSUME VersionInv, NEW d \in Document, NEW o \in Document, FlagPoints(d, o)
    PROVE  VersionInv'
<1>1. /\ pc[d] = "flag" /\ o \in todo[d] /\ UNCHANGED <<version, rows, disorder>>
      /\ \/ points' = [points EXCEPT ![o] = WithLatest(@, FALSE)] /\ lost' = lost
         \/ points' = points /\ lost' = TRUE
      /\ todo' = [todo EXCEPT ![d] = @ \ {o}]
      /\ pc' = [pc EXCEPT ![d] = IF todo'[d] = {} THEN "idle" ELSE "flag"]
  BY DEF FlagPoints, Goto, postgres
<1>2. Created' = Created /\ \A e \in Document : Older(e)' = Older(e)
  BY <1>1, SameVersions
<1>3. /\ todo' \in [Document -> SUBSET Document] /\ todo'[d] = todo[d] \ {o}
      /\ \A e \in Document \ {d} : todo'[e] = todo[e] /\ pc'[e] = pc[e]
      /\ pc'[d] \in {"flag", "idle"} /\ (pc'[d] = "idle" => todo'[d] = {})
  BY <1>1 DEF VersionInv, StoreTypes
<1>4. /\ points' \in [Document -> Point]
      /\ \A e \in Document : /\ points'[e].there = points[e].there
                             /\ points'[e].latest => points[e].latest
      /\ ~lost' => ~points'[o].latest
  <2>1. points \in [Document -> Point] /\ \A e \in Document : points[e].latest => points[e].there
    BY DEF VersionInv, StoreTypes, RowsFirst
  <2>2. CASE points' = points /\ lost' = TRUE
    BY <2>1, <2>2
  <2>3. CASE points' = [points EXCEPT ![o] = WithLatest(@, FALSE)]
    <3>1. /\ WithLatest(points[o], FALSE) \in Point
          /\ WithLatest(points[o], FALSE).there = points[o].there
          /\ ~WithLatest(points[o], FALSE).latest
      BY <2>1 DEF WithLatest, Point
    <3>2. QED
      BY <2>1, <2>3, <3>1
  <2>4. QED
    BY <1>1, <2>2, <2>3
<1>5. StoreTypes' /\ RowsFirst'
  BY <1>1, <1>2, <1>3, <1>4 DEF VersionInv, StoreTypes, RowsFirst
<1>6. OlderOnly'
  BY <1>1, <1>2, <1>3, <1>4 DEF VersionInv, OlderOnly
<1>7. ASSUME ~disorder', ~lost'
      PROVE  OneByOne' /\ \A c, e \in Created' :
                version'[c] < version'[e] /\ rows'[e] # "none" => Retired(e, c)'
  <2>1. OneByOne /\ \A c, e \in Created : version[c] < version[e] /\ rows[e] # "none" => Retired(e, c)
    <3>1. ~disorder /\ ~lost
      <4>1. CASE lost' = lost
        BY <1>1, <1>7, <4>1
      <4>2. CASE lost' = TRUE
        BY <1>7, <4>2
      <4>3. QED
        BY <1>1, <4>1, <4>2
    <3>2. QED
      BY <3>1 DEF VersionInv, InOrder
  <2>2. OneByOne'
    BY <1>1, <1>3, <2>1 DEF OneByOne
  <2>3. ASSUME NEW c \in Created, NEW e \in Created, version[c] < version[e], rows[e] # "none"
        PROVE  Retired(e, c)'
    <3>1. c \in Document /\ e \in Document /\ Retired(e, c)
      BY <2>1, <2>3 DEF Created
    <3>2. CASE e = d
      <4>1. rows'[c] # "latest" /\ (c \in todo[d] \/ ~points[c].latest)
        BY <1>1, <3>1, <3>2 DEF Retired
      <4>2. c \in todo'[d] \/ ~points'[c].latest
        BY <1>3, <1>4, <1>7, <3>1, <4>1
      <4>3. QED
        BY <1>3, <3>2, <4>1, <4>2 DEF Retired
    <3>3. CASE e # d
      BY <1>1, <1>3, <1>4, <3>1, <3>3 DEF Retired
    <3>4. QED
      BY <3>2, <3>3
  <2>4. QED
    BY <1>1, <1>2, <2>2, <2>3
<1>8. QED
  BY <1>5, <1>6, <1>7 DEF VersionInv, InOrder

(* An execution that dies leaves a loss behind. *)
LEMMA IndexingOver ==
    ASSUME VersionInv, NEW d \in Document, IndexFails(d)
    PROVE  VersionInv'
<1>1. /\ UNCHANGED <<version, rows, points, disorder>> /\ lost' = TRUE
      /\ pc' = [pc EXCEPT ![d] = "idle"] /\ todo' = [todo EXCEPT ![d] = {}]
  BY DEF IndexFails, Goto, postgres
<1>2. Created' = Created /\ \A e \in Document : Older(e)' = Older(e)
  BY <1>1, SameVersions
<1>3. StoreTypes' /\ RowsFirst'
  BY <1>1, <1>2 DEF VersionInv, StoreTypes, RowsFirst
<1>4. OlderOnly'
  BY <1>1, <1>2 DEF VersionInv, StoreTypes, OlderOnly
<1>5. QED
  BY <1>1, <1>3, <1>4 DEF VersionInv, InOrder

-----------------------------------------------------------------------------
(* The steps of an administrator and of the reconciliation. *)

(* What only marks points as deleted disturbs nothing. *)
LEMMA DeletedOnly ==
    ASSUME VersionInv, UNCHANGED <<version, rows, pc, todo, disorder, lost>>,
           points' \in [Document -> Point],
           \A e \in Document : points'[e].there = points[e].there /\ points'[e].latest = points[e].latest
    PROVE  VersionInv'
<1>1. Created' = Created /\ \A e \in Document : Older(e)' = Older(e)
  BY SameVersions
<1>2. StoreTypes' /\ RowsFirst' /\ OlderOnly'
  BY <1>1 DEF VersionInv, StoreTypes, RowsFirst, OlderOnly
<1>3. InOrder'
  BY <1>1 DEF VersionInv, InOrder, OneByOne, Retired, Created
<1>4. QED
  BY <1>2, <1>3 DEF VersionInv

(* The flag of a deletion is sent to the points of one document. *)
LEMMA DeletedFlag ==
    ASSUME VersionInv, NEW x, NEW value \in BOOLEAN,
           points' = [points EXCEPT ![x] = WithDeleted(@, value)]
    PROVE  /\ points' \in [Document -> Point]
           /\ \A e \in Document : points'[e].there = points[e].there /\ points'[e].latest = points[e].latest
BY DEF VersionInv, StoreTypes, WithDeleted, Point

(* An administrator changes who is deleted, never a version or a latest flag. *)
LEMMA AdminKeeps ==
    ASSUME VersionInv, NEW d \in Document, Admin(d)
    PROVE  VersionInv'
<1>1. points \in [Document -> Point]
  BY DEF VersionInv, StoreTypes
<1>2. CASE SoftDelete(d)
  BY <1>1, <1>2, DeletedOnly DEF SoftDelete, indexer, history
<1>3. CASE Restore(d)
  BY <1>1, <1>3, DeletedOnly DEF Restore, indexer, history
<1>4. ASSUME NEW value \in BOOLEAN, Flip(d, value)
      PROVE  VersionInv'
  <2>1. /\ UNCHANGED <<version, rows, pc, todo, disorder, lost>>
        /\ points' = [points EXCEPT ![d] = WithDeleted(@, value)] \/ points' = points
    BY <1>4 DEF Flip, postgres, indexer, history
  <2>2. QED
    BY <1>1, <2>1, DeletedFlag, DeletedOnly
<1>5. QED
  BY <1>2, <1>3, <1>4 DEF Admin

(* Neither does the reconciliation. *)
LEMMA LoopKeeps ==
    ASSUME VersionInv, Loop
    PROVE  VersionInv'
<1>1. points \in [Document -> Point]
  BY DEF VersionInv, StoreTypes
<1>2. CASE TickDeleted \/ TickRestored \/ TickEnds
  BY <1>1, <1>2, DeletedOnly DEF TickDeleted, TickRestored, TickEnds, postgres, indexer, history
<1>3. CASE TickSends
  <2>1. /\ UNCHANGED <<version, rows, pc, todo, disorder, lost>>
        /\ \/ points' = [points EXCEPT ![Head(batch)] = WithDeleted(@, tick = "deleted")]
           \/ points' = points
    BY <1>3 DEF TickSends, postgres, indexer, history
  <2>2. (tick = "deleted") \in BOOLEAN
    OBVIOUS
  <2>3. QED
    BY <1>1, <2>1, <2>2, DeletedFlag, DeletedOnly
<1>4. QED
  BY <1>2, <1>3 DEF Loop

(* Every step keeps the invariant. *)
LEMMA VersionsKeep == VersionInv /\ [VersionsNext]_storeVars => VersionInv'
<1> SUFFICES ASSUME VersionInv, [VersionsNext]_storeVars
             PROVE  VersionInv'
  OBVIOUS
<1>1. ASSUME NEW d \in Document, Indexer(d)
      PROVE  VersionInv'
  BY <1>1, RowsIndexed, PointsSent, OlderSelected, RowsUpdated, IndexingOver, PointsFlagged DEF Indexer
<1>2. ASSUME NEW d \in Document, NEW previous \in Document, CreateVersion(d, previous)
      PROVE  VersionInv'
  BY <1>2, VersionCreated
<1>3. CASE UNCHANGED storeVars
  <2>1. points \in [Document -> Point]
    BY DEF VersionInv, StoreTypes
  <2>2. QED
    BY <1>3, <2>1, DeletedOnly DEF storeVars, postgres, indexer, history
<1>4. QED
  BY <1>1, <1>2, <1>3, AdminKeeps, LoopKeeps DEF VersionsNext

(* Every state the stores reach satisfies the invariant. *)
LEMMA VersionInvariant == VersionsSpec => []VersionInv
BY VersionsStart, VersionsKeep, PTL DEF VersionsSpec

-----------------------------------------------------------------------------
(* The readers. *)

(* An execution may begin with a part of its bounds. *)
LEMMA ReadersStart == ReadersInit => VersionsInit
<1> SUFFICES ASSUME ReadersInit
             PROVE  VersionsInit
  OBVIOUS
<1>1. PICK s \in Scenarios : /\ indexings = MaxIndexings - s.indexings
                             /\ admin = MaxAdmin - s.admin /\ faults = MaxFaults - s.faults
  BY DEF ReadersInit
<1>2. indexings \in 0..MaxIndexings /\ admin \in 0..MaxAdmin /\ faults \in 0..MaxFaults
  BY <1>1, ScenarioAssumption, VersionAssumption
<1>3. QED
  BY <1>2 DEF ReadersInit, Apart, VersionsInit

(* The steps of the stores are those of VersionIndex; a reader's own step
   leaves the stores alone. *)
LEMMA ReadersStep == [ReadersNext]_allVars => [VersionsNext]_storeVars
<1> SUFFICES ASSUME [ReadersNext]_allVars
             PROVE  [VersionsNext]_storeVars
  OBVIOUS
<1>1. CASE UNCHANGED allVars
  BY <1>1 DEF allVars
<1>2. ASSUME NEW d \in Document,
             \/ IndexBeside(d) \/ UpsertBeside(d) \/ SelectOlder(d) \/ UpdateRows(d) \/ IndexFails(d)
             \/ \E e \in Document : FlagPoints(d, e)
      PROVE  VersionsNext
  BY <1>2 DEF IndexBeside, UpsertBeside, VersionsNext, Indexer
<1>3. ASSUME NEW d \in Document,
             \/ \E e \in Document : CreateVersion(d, e)
             \/ SoftDelete(d) \/ Restore(d) \/ \E value \in BOOLEAN : Flip(d, value)
      PROVE  VersionsNext
  BY <1>3 DEF VersionsNext, Admin
<1>4. CASE Loop
  BY <1>4 DEF VersionsNext
<1>5. CASE \/ \E q \in Requests : Ask(q)
           \/ ReadPoints \/ ReadRows \/ ReadContexts \/ Fetch
           \/ \E offset \in 0..MaxOffset : LoadPage(offset)
           \/ FetchPage \/ Expire
  BY <1>5 DEF Ask, ReadPoints, ReadRows, ReadContexts, Fetch, LoadPage, FetchPage, Expire
<1>6. QED
  BY <1>1, <1>2, <1>3, <1>4, <1>5 DEF ReadersNext, Loop

(* Searching and paging only read: the versions with readers next to them are
   the versions (search.ts and paginate.ts write nothing to the stores). *)
THEOREM ReadersOnlyRead == ReadersSpec => VersionsSpec
BY ReadersStart, ReadersStep, PTL DEF ReadersSpec, VersionsSpec

-----------------------------------------------------------------------------
(* After indexings in order and without a loss only the newest version that
   is indexed is found (deactivateOldVersionChunks). *)
THEOREM NewestIsLatest == ReadersSpec => []LatestIsNewest
<1>1. VersionInv => LatestIsNewest
  BY DEF VersionInv, InOrder, RowsFirst, LatestIsNewest, Quiet, Retired, Created
<1>2. QED
  BY <1>1, VersionInvariant, ReadersOnlyRead, PTL

(* A version loses its flag only to a newer one whose points are
   in place, so a concept never drops out of the search (indexer-step.ts). *)
THEOREM NeverDropped == ReadersSpec => NeverHidden
<1> DEFINE ToNewer == \A d \in Document : rows[d] = "latest" /\ rows'[d] = "old"
                        => \E e \in Document : version[e] > version[d] /\ points[e].there
<1>1. ASSUME VersionInv, [VersionsNext]_storeVars, NEW d \in Document, rows[d] = "latest", rows'[d] = "old"
      PROVE  \E e \in Document : version[e] > version[d] /\ points[e].there
  <2>1. PICK e \in Document : UpdateRows(e)
    BY <1>1 DEF VersionsNext, Indexer, Admin, Loop, CreateVersion, IndexRows, Upsert, SelectOlder, FlagPoints,
       IndexFails, SoftDelete, Restore, Flip, TickDeleted, TickRestored, TickSends, TickEnds, postgres,
       storeVars, VersionInv, StoreTypes
  <2>2. pc[e] = "update" /\ d \in todo[e]
    BY <1>1, <2>1 DEF UpdateRows
  <2>3. points[e].there /\ d \in Older(e)
    BY <1>1, <2>2 DEF VersionInv, OlderOnly
  <2>4. version[d] \in Nat /\ version[e] \in Nat /\ version[d] < version[e]
    BY <1>1, <2>3 DEF Older, VersionInv, StoreTypes
  <2>5. QED
    BY <2>3, <2>4
<1>2. VersionInv /\ [VersionsNext]_storeVars => [ToNewer]_storeVars
  BY <1>1
<1>3. QED
  BY <1>2, VersionInvariant, ReadersOnlyRead, PTL DEF VersionsSpec, NeverHidden

-----------------------------------------------------------------------------
(* What the stages of a search make of a sequence of chunks. *)

(* A chunk has a place to be found at, a score, and its document is one of D. *)
Chunk(c, D) == {"id", "doc", "score", "ctx"} \subseteq DOMAIN c /\ c.score \in Nat /\ c.doc \in D

(* Chunks of D, none twice. *)
Chunks(cs, D) ==
    /\ cs \in Seq({cs[i] : i \in DOMAIN cs})
    /\ \A i \in DOMAIN cs : Chunk(cs[i], D)
    /\ \A i, j \in DOMAIN cs : cs[i].id = cs[j].id => i = j

(* A function on 1..n is a sequence. *)
LEMMA FromFunction ==
    ASSUME NEW n \in Nat, NEW f, f = [i \in 1..n |-> f[i]]
    PROVE  /\ f \in Seq({f[i] : i \in DOMAIN f}) /\ Len(f) = n /\ DOMAIN f = 1..n
           /\ f = <<>> <=> n = 0
<1> DEFINE S == {f[i] : i \in DOMAIN f}
<1>1. DOMAIN f = 1..n
  OBVIOUS
<1>2. f \in [1..n -> S]
  BY <1>1
<1> HIDE DEF S
<1>3. f \in Seq(S) /\ Len(f) = n
  BY <1>2
<1>4. QED
  BY <1>1, <1>3 DEF S

(* Chunks have the positions of a sequence. *)
LEMMA ChunksAt ==
    ASSUME NEW cs, NEW D, Chunks(cs, D)
    PROVE  /\ Len(cs) \in Nat /\ DOMAIN cs = 1..Len(cs) /\ IsFiniteSet(DOMAIN cs)
           /\ cs = [i \in 1..Len(cs) |-> cs[i]]
           /\ cs # <<>> <=> Len(cs) # 0
<1> DEFINE S == {cs[i] : i \in DOMAIN cs}
<1>1. cs \in Seq(S)
  BY DEF Chunks
<1> HIDE DEF S
<1>2. /\ Len(cs) \in Nat /\ DOMAIN cs = 1..Len(cs) /\ cs = [i \in 1..Len(cs) |-> cs[i]]
      /\ cs # <<>> <=> Len(cs) # 0
  BY <1>1
<1>3. IsFiniteSet(1..Len(cs))
  BY <1>2, FS_Interval
<1>4. QED
  BY <1>2, <1>3

(* Chunks taken from chunks, each from its own position. *)
LEMMA ChunksFrom ==
    ASSUME NEW cs, NEW D, Chunks(cs, D), NEW E, NEW n \in Nat, NEW t, t = [i \in 1..n |-> t[i]],
           NEW f \in [1..n -> DOMAIN cs], \A i, j \in 1..n : f[i] = f[j] => i = j,
           \A i \in 1..n : Chunk(t[i], E) /\ t[i].id = cs[f[i]].id
    PROVE  Chunks(t, E) /\ Len(t) = n /\ DOMAIN t = 1..n
<1>1. t \in Seq({t[i] : i \in DOMAIN t}) /\ Len(t) = n /\ DOMAIN t = 1..n
  BY FromFunction
<1>2. \A i, j \in 1..n : t[i].id = t[j].id => f[i] = f[j]
  BY DEF Chunks
<1>3. QED
  BY <1>1, <1>2 DEF Chunks

(* Each element that is picked comes from a position of its own. *)
PickedBy(f, s, where) ==
    /\ f \in [1..Cardinality(where) -> where]
    /\ \A n, m \in 1..Cardinality(where) : f[n] = f[m] => n = m
    /\ \A i \in where : \E n \in 1..Cardinality(where) : f[n] = i
    /\ \A n \in 1..Cardinality(where) : Picked(s, where)[n] = s[f[n]]

(* The ranks of the positions are those of the elements that are picked. *)
LEMMA PickedFrom ==
    ASSUME NEW s, NEW where, IsFiniteSet(where), where \subseteq Nat
    PROVE  /\ Cardinality(where) \in Nat
           /\ Picked(s, where) = [n \in 1..Cardinality(where) |-> Picked(s, where)[n]]
           /\ \E f : PickedBy(f, s, where)
<1> DEFINE Up(x) == {k \in where : k <= x}
           N == Cardinality(where)
           rank == [i \in where |-> Cardinality(Up(i))]
           f == [n \in 1..N |-> CHOOSE i \in where : Cardinality(Up(i)) = n]
<1>1. N \in Nat
  BY FS_CardinalityType
<1>2. \A x \in where : IsFiniteSet(Up(x)) /\ Cardinality(Up(x)) \in Nat /\ Cardinality(Up(x)) <= N
  <2>1. \A x \in where : Up(x) \subseteq where
    OBVIOUS
  <2>2. QED
    BY <2>1, FS_Subset, FS_CardinalityType
<1>3. \A x \in where : rank[x] \in 1..N
  <2>1. \A x \in where : x \in Up(x)
    OBVIOUS
  <2>2. \A x \in where : Cardinality(Up(x)) # 0
    BY <1>2, <2>1, FS_EmptySet
  <2>3. \A x \in where : Cardinality(Up(x)) \in 1..N
    <3> HIDE DEF Up, N
    <3>1. QED
      BY <1>1, <1>2, <2>2
  <2>4. QED
    BY <2>3
<1>4. \A x, y \in where : rank[x] = rank[y] => x = y
  <2>1. ASSUME NEW x \in where, NEW y \in where, x < y PROVE Cardinality(Up(x)) # Cardinality(Up(y))
    <3>1. x \in Nat /\ y \in Nat /\ \A k \in where : k \in Nat /\ (k <= x => k <= y)
      BY <2>1
    <3>2. Up(x) \subseteq Up(y)
      BY <3>1
    <3>3. y \in Up(y) /\ y \notin Up(x)
      <4>1. y <= y /\ ~(y <= x)
        BY <2>1, <3>1
      <4>2. QED
        BY <4>1
    <3>4. QED
      BY <1>2, <3>2, <3>3, FS_Subset
  <2>2. \A x, y \in where : x # y => x < y \/ y < x
    OBVIOUS
  <2>3. QED
    BY <2>1, <2>2
<1>5. rank \in Injection(where, 1..N)
  BY <1>3, <1>4 DEF Injection, IsInjective
<1>6. rank \in Surjection(where, 1..N)
  <2>1. IsFiniteSet(1..N) /\ Cardinality(1..N) = N
    BY <1>1, FS_Interval
  <2>2. QED
    BY <1>5, <2>1, FS_Injection
<1>7. \A n \in 1..N : f[n] \in where /\ rank[f[n]] = n
  <2>1. \A n \in 1..N : \E i \in where : rank[i] = n
    BY <1>6 DEF Surjection
  <2>2. QED
    BY <2>1
<1>8. Picked(s, where) = [n \in 1..N |-> s[f[n]]]
  BY DEF Picked
<1>9. f \in [1..N -> where]
  BY <1>7
<1>10. \A i \in where : f[rank[i]] = i
  BY <1>3, <1>4, <1>7
<1>11. QED
  <2> HIDE DEF f, rank
  <2>1. \A n, m \in 1..N : f[n] = f[m] => n = m
    BY <1>7
  <2>2. \A i \in where : \E n \in 1..N : f[n] = i
    BY <1>3, <1>10
  <2>3. \A n \in 1..N : Picked(s, where)[n] = s[f[n]]
    BY <1>8
  <2>4. Picked(s, where) = [n \in 1..N |-> Picked(s, where)[n]]
    BY <1>8
  <2>5. PickedBy(f, s, where)
    BY <1>9, <2>1, <2>2, <2>3 DEF PickedBy
  <2>6. QED
    BY <1>1, <2>4, <2>5

(* A chunk of a document that is one of E. *)
LEMMA OfDocuments ==
    ASSUME NEW c, NEW D, Chunk(c, D), NEW E, c.doc \in E
    PROVE  Chunk(c, E)
BY DEF Chunk

(* Picked chunks are chunks: those that were picked, and all of them. *)
LEMMA PickedChunks ==
    ASSUME NEW cs, NEW D, Chunks(cs, D), NEW where, where \subseteq DOMAIN cs,
           NEW E, \A i \in where : cs[i].doc \in E
    PROVE  LET t == Picked(cs, where)
           IN /\ Chunks(t, E)
              /\ \A n \in DOMAIN t : \E i \in where : t[n] = cs[i]
              /\ \A i \in where : \E n \in DOMAIN t : t[n] = cs[i]
<1> DEFINE t == Picked(cs, where)
           N == Cardinality(where)
<1>1. IsFiniteSet(where) /\ where \subseteq Nat
  BY ChunksAt, FS_Subset
<1>2. N \in Nat /\ t = [n \in 1..N |-> t[n]]
  BY <1>1, PickedFrom
<1>3. PICK f : PickedBy(f, cs, where)
  BY <1>1, PickedFrom
<1>4. /\ f \in [1..N -> where]
      /\ \A n, m \in 1..N : f[n] = f[m] => n = m
      /\ \A i \in where : \E n \in 1..N : f[n] = i
      /\ \A n \in 1..N : t[n] = cs[f[n]]
  BY <1>3 DEF PickedBy
<1> HIDE DEF t, N
<1>5. f \in [1..N -> DOMAIN cs]
  BY <1>4
<1>6. \A i \in where : Chunk(cs[i], E)
  <2>1. \A i \in DOMAIN cs : Chunk(cs[i], D)
    BY DEF Chunks
  <2>2. QED
    BY <2>1, OfDocuments
<1>7. \A n \in 1..N : Chunk(t[n], E) /\ t[n].id = cs[f[n]].id
  <2>1. \A n \in 1..N : f[n] \in where /\ t[n] = cs[f[n]]
    BY <1>4
  <2>2. QED
    BY <1>6, <2>1
<1>8. Chunks(t, E) /\ DOMAIN t = 1..N
  BY <1>2, <1>4, <1>5, <1>7, ChunksFrom
<1>9. QED
  BY <1>4, <1>8 DEF t

(* The first chunks are chunks. *)
LEMMA TopChunks ==
    ASSUME NEW cs, NEW D, Chunks(cs, D), NEW n \in Nat
    PROVE  LET t == TopN(cs, n)
           IN /\ Chunks(t, D) /\ Len(t) = (IF Len(cs) < n THEN Len(cs) ELSE n)
              /\ \A i \in DOMAIN t : i \in DOMAIN cs /\ t[i] = cs[i]
<1> DEFINE t == TopN(cs, n)
           N == IF Len(cs) < n THEN Len(cs) ELSE n
           S == {cs[i] : i \in DOMAIN cs}
<1>1. Len(cs) \in Nat /\ DOMAIN cs = 1..Len(cs)
  BY ChunksAt
<1>2. N \in Nat /\ 1..N \subseteq DOMAIN cs
  BY <1>1
<1>3. cs \in Seq(S)
  BY DEF Chunks
<1>4. t = SubSeq(cs, 1, N)
  BY DEF TopN
<1> HIDE DEF S, t, N
<1>5. t = [i \in 1..N |-> cs[i]]
  BY <1>1, <1>2, <1>3, <1>4
<1>6. t = [i \in 1..N |-> t[i]] /\ \A i \in 1..N : t[i] = cs[i]
  BY <1>5
<1> DEFINE f == [i \in 1..N |-> i]
<1>7. f \in [1..N -> DOMAIN cs] /\ \A i \in 1..N : f[i] = i
  BY <1>2
<1>8. \A i \in 1..N : Chunk(t[i], D)
  BY <1>2, <1>6 DEF Chunks
<1> HIDE DEF f
<1>9. Chunks(t, D) /\ Len(t) = N /\ DOMAIN t = 1..N
  BY <1>2, <1>6, <1>7, <1>8, ChunksFrom
<1>10. QED
  BY <1>2, <1>6, <1>9 DEF t, N

(* One sequence behind another, and no chunk in both. *)
Joined(t, a, b) ==
    /\ t = a \o b
    /\ \A i \in DOMAIN a : \A j \in DOMAIN b : a[i].id # b[j].id

(* Two sequences of chunks without a common one. *)
LEMMA ConcatChunks ==
    ASSUME NEW a, NEW b, NEW D, Chunks(a, D), Chunks(b, D), NEW t, Joined(t, a, b)
    PROVE  /\ Chunks(t, D) /\ Len(t) = Len(a) + Len(b)
           /\ \A i \in DOMAIN t : \/ i \in DOMAIN a /\ t[i] = a[i]
                                  \/ i - Len(a) \in DOMAIN b /\ t[i] = b[i - Len(a)]
           /\ \A i \in DOMAIN a : i \in DOMAIN t /\ t[i] = a[i]
           /\ \A i \in DOMAIN b : i + Len(a) \in DOMAIN t /\ t[i + Len(a)] = b[i]
<1> DEFINE S == {a[i] : i \in DOMAIN a} \cup {b[i] : i \in DOMAIN b}
           N == Len(a) + Len(b)
<1>1. /\ Len(a) \in Nat /\ DOMAIN a = 1..Len(a)
      /\ Len(b) \in Nat /\ DOMAIN b = 1..Len(b)
  BY ChunksAt
<1>2. a \in Seq(S) /\ b \in Seq(S)
  <2>1. a \in Seq({a[i] : i \in DOMAIN a}) /\ b \in Seq({b[i] : i \in DOMAIN b})
    BY DEF Chunks
  <2>2. \A X, Y, q : X \subseteq Y /\ q \in Seq(X) => q \in Seq(Y)
    OBVIOUS
  <2>3. QED
    BY <2>1, <2>2
<1> HIDE DEF S
<1>3. /\ t \in Seq(S) /\ Len(t) = N /\ DOMAIN t = 1..N
      /\ \A i \in 1..Len(a) : t[i] = a[i]
      /\ \A i \in 1..Len(b) : t[i + Len(a)] = b[i]
  BY <1>1, <1>2 DEF Joined
<1>4. \A i \in DOMAIN t : \/ i \in DOMAIN a /\ t[i] = a[i]
                          \/ i - Len(a) \in DOMAIN b /\ t[i] = b[i - Len(a)]
  <2>1. ASSUME NEW i \in 1..N, i \notin 1..Len(a)
        PROVE  i - Len(a) \in 1..Len(b) /\ t[i] = b[i - Len(a)]
    <3>1. i - Len(a) \in 1..Len(b) /\ (i - Len(a)) + Len(a) = i
      BY <1>1, <2>1
    <3>2. QED
      BY <1>3, <3>1
  <2>2. QED
    BY <1>1, <1>3, <2>1
<1>5. \A i \in DOMAIN t : Chunk(t[i], D)
  BY <1>4 DEF Chunks
<1>6. \A i, j \in DOMAIN t : t[i].id = t[j].id => i = j
  <2> SUFFICES ASSUME NEW i \in DOMAIN t, NEW j \in DOMAIN t, t[i].id = t[j].id
               PROVE  i = j
    OBVIOUS
  <2>1. CASE i \in DOMAIN a /\ t[i] = a[i] /\ j \in DOMAIN a /\ t[j] = a[j]
    BY <2>1 DEF Chunks
  <2>2. CASE i - Len(a) \in DOMAIN b /\ t[i] = b[i - Len(a)] /\ j - Len(a) \in DOMAIN b /\ t[j] = b[j - Len(a)]
    <3>1. i - Len(a) = j - Len(a)
      BY <2>2 DEF Chunks
    <3>2. QED
      BY <1>1, <1>3, <3>1
  <2>3. \A k \in DOMAIN a : \A l \in DOMAIN b : a[k].id # b[l].id
    BY DEF Joined
  <2>4. QED
    BY <1>4, <2>1, <2>2, <2>3
<1>7. t \in Seq({t[i] : i \in DOMAIN t})
  <2>1. N \in Nat
    BY <1>1
  <2> HIDE DEF N
  <2>2. t = [i \in 1..N |-> t[i]]
    BY <1>3
  <2>3. QED
    BY <2>1, <2>2, FromFunction
<1>8. Chunks(t, D)
  BY <1>5, <1>6, <1>7 DEF Chunks
<1>9. \A i \in DOMAIN b : i + Len(a) \in DOMAIN t
  BY <1>1, <1>3
<1>10. QED
  BY <1>1, <1>3, <1>4, <1>8, <1>9

(* Sorted by score, chunks are the same chunks in another order. *)
LEMMA SortedChunks ==
    ASSUME NEW cs, NEW D, Chunks(cs, D)
    PROVE  LET t == SortDown(cs, LAMBDA c : c.score)
           IN /\ Chunks(t, D) /\ Len(t) = Len(cs)
              /\ \A n \in DOMAIN t : \E i \in DOMAIN cs : t[n] = cs[i]
              /\ \A i \in DOMAIN cs : \E n \in DOMAIN t : t[n] = cs[i]
<1> DEFINE t == SortDown(cs, LAMBDA c : c.score)
           N == Len(cs)
           Before(i) == {j \in DOMAIN cs : cs[j].score > cs[i].score
                                           \/ (cs[j].score = cs[i].score /\ j < i)}
           rank == [i \in 1..N |-> Cardinality(Before(i)) + 1]
           f == [n \in 1..N |-> CHOOSE i \in DOMAIN cs : Cardinality(Before(i)) = n - 1]
<1>1. N \in Nat /\ DOMAIN cs = 1..N /\ IsFiniteSet(DOMAIN cs) /\ Cardinality(1..N) = N
  <2>1. N \in Nat /\ DOMAIN cs = 1..N /\ IsFiniteSet(DOMAIN cs)
    BY ChunksAt
  <2> HIDE DEF N
  <2>2. QED
    BY <2>1, FS_Interval
<1>2. \A i \in DOMAIN cs : cs[i].score \in Nat
  BY DEF Chunks, Chunk
<1>3. t = [n \in 1..N |-> cs[f[n]]]
  <2>1. t = [n \in DOMAIN cs |-> cs[CHOOSE i \in DOMAIN cs : Cardinality(Before(i)) = n - 1]]
    BY DEF SortDown
  <2>2. QED
    BY <1>1, <2>1
<1> HIDE DEF t
<1>4. \A i \in 1..N : /\ IsFiniteSet(Before(i)) /\ Cardinality(Before(i)) \in Nat
                      /\ Cardinality(Before(i)) < N
  <2> SUFFICES ASSUME NEW i \in 1..N
               PROVE  /\ IsFiniteSet(Before(i)) /\ Cardinality(Before(i)) \in Nat
                      /\ Cardinality(Before(i)) < N
    OBVIOUS
  <2>1. Before(i) \subseteq 1..N /\ i \notin Before(i)
    BY <1>1, <1>2
  <2> HIDE DEF Before
  <2>2. QED
    BY <1>1, <2>1, FS_Subset, FS_CardinalityType
<1>5. \A i, j \in 1..N : i \in Before(j) => Cardinality(Before(i)) # Cardinality(Before(j))
  <2> SUFFICES ASSUME NEW i \in 1..N, NEW j \in 1..N, i \in Before(j)
               PROVE  Cardinality(Before(i)) # Cardinality(Before(j))
    OBVIOUS
  <2>1. i \notin Before(i)
    BY <1>1, <1>2
  <2>2. ASSUME NEW k \in Before(i) PROVE k \in Before(j)
    <3>1. /\ k \in Nat /\ i \in Nat /\ j \in Nat /\ k \in DOMAIN cs
          /\ cs[k].score \in Nat /\ cs[i].score \in Nat /\ cs[j].score \in Nat
      BY <1>1, <1>2, <2>2
    <3>2. /\ cs[k].score > cs[i].score \/ (cs[k].score = cs[i].score /\ k < i)
          /\ cs[i].score > cs[j].score \/ (cs[i].score = cs[j].score /\ i < j)
      BY <2>2
    <3>3. cs[k].score > cs[j].score \/ (cs[k].score = cs[j].score /\ k < j)
      BY <3>1, <3>2
    <3>4. QED
      BY <3>1, <3>3
  <2>3. Before(i) \subseteq Before(j)
    BY <2>2
  <2> HIDE DEF Before
  <2>4. QED
    BY <1>4, <2>1, <2>3, FS_Subset
<1>6. \A i, j \in 1..N : i # j => i \in Before(j) \/ j \in Before(i)
  BY <1>1, <1>2
<1>7. \A i, j \in 1..N : rank[i] = rank[j] => i = j
  <2> HIDE DEF Before
  <2>1. \A i, j \in 1..N : Cardinality(Before(i)) = Cardinality(Before(j)) => i = j
    BY <1>5, <1>6
  <2>2. QED
    BY <1>4, <2>1
<1>8. \A i \in 1..N : rank[i] \in 1..N
  <2> HIDE DEF Before
  <2>1. QED
    BY <1>1, <1>4
<1>9. rank \in Injection(1..N, 1..N)
  BY <1>7, <1>8 DEF Injection, IsInjective
<1>10. rank \in Surjection(1..N, 1..N)
  BY <1>1, <1>9, FS_Injection
<1>11. \A n \in 1..N : f[n] \in 1..N /\ rank[f[n]] = n
  <2> HIDE DEF Before
  <2>1. \A n \in 1..N : \E i \in 1..N : rank[i] = n
    BY <1>10 DEF Surjection
  <2>2. \A n \in 1..N : \E i \in DOMAIN cs : Cardinality(Before(i)) = n - 1
    <3>1. \A n \in 1..N, i \in 1..N : rank[i] = n => Cardinality(Before(i)) = n - 1
      BY <1>4
    <3>2. QED
      BY <1>1, <2>1, <3>1
  <2>3. \A n \in 1..N : f[n] \in 1..N /\ Cardinality(Before(f[n])) = n - 1
    BY <1>1, <2>2
  <2>4. QED
    BY <2>3
<1> HIDE DEF f, rank
<1>12. \A n, m \in 1..N : f[n] = f[m] => n = m
  BY <1>11
<1>13. \A i \in 1..N : f[rank[i]] = i
  BY <1>7, <1>8, <1>11
<1>14. t = [n \in 1..N |-> t[n]] /\ \A n \in 1..N : t[n] = cs[f[n]]
  BY <1>3
<1>15. f \in [1..N -> DOMAIN cs]
  BY <1>1, <1>11 DEF f
<1>16. \A n \in 1..N : Chunk(t[n], D)
  BY <1>1, <1>11, <1>14 DEF Chunks
<1> HIDE DEF N
<1>17. Chunks(t, D) /\ Len(t) = N /\ DOMAIN t = 1..N
  BY <1>1, <1>12, <1>14, <1>15, <1>16, ChunksFrom
<1>18. QED
  BY <1>1, <1>8, <1>11, <1>13, <1>14, <1>17 DEF t, N

-----------------------------------------------------------------------------
(* The stages. *)

(* Chunks with other scores or contexts. *)
LEMMA SameChunks ==
    ASSUME NEW cs, NEW D, Chunks(cs, D), NEW t, t = [i \in DOMAIN cs |-> t[i]],
           \A i \in DOMAIN cs : Chunk(t[i], D) /\ t[i].id = cs[i].id
    PROVE  Chunks(t, D) /\ Len(t) = Len(cs) /\ IdsOf(t) = IdsOf(cs)
<1> DEFINE N == Len(cs)
           f == [i \in 1..N |-> i]
<1>1. N \in Nat /\ DOMAIN cs = 1..N
  BY ChunksAt
<1>2. f \in [1..N -> DOMAIN cs] /\ \A i \in 1..N : f[i] = i
  BY <1>1
<1> HIDE DEF f, N
<1>3. Chunks(t, D) /\ Len(t) = N /\ DOMAIN t = 1..N
  BY <1>1, <1>2, ChunksFrom
<1>4. QED
  BY <1>1, <1>3 DEF IdsOf, N

(* A score is the only thing that is new of a chunk with a new score. *)
LEMMA Rescored ==
    ASSUME NEW c, NEW D, Chunk(c, D), NEW v \in Nat
    PROVE  LET r == [c EXCEPT !.score = v] IN Chunk(r, D) /\ r.id = c.id
BY DEF Chunk

(* So is the context of a chunk that is hydrated. *)
LEMMA Recontexted ==
    ASSUME NEW c, NEW D, Chunk(c, D), NEW v, NEW r, r = [c EXCEPT !.ctx = v]
    PROVE  Chunk(r, D) /\ r.id = c.id
BY DEF Chunk

(* Of chunks of which none is twice, the one with an id is a chunk of them. *)
LEMMA TheChunk ==
    ASSUME NEW cs, NEW D, Chunks(cs, D), NEW id \in IdsOf(cs)
    PROVE  Chunk(WithId(cs, id), D) /\ WithId(cs, id).id = id
<1>1. \E i \in DOMAIN cs : cs[i].id = id
  BY DEF IdsOf
<1>2. PICK i \in DOMAIN cs : WithId(cs, id) = cs[i] /\ cs[i].id = id
  BY <1>1 DEF WithId
<1>3. QED
  BY <1>2 DEF Chunks

(* The points of the latest versions. *)
LEMMA VectorFound ==
    ASSUME NEW ps, NEW D, Chunks(ps, D), NEW n \in Nat \ {0}
    PROVE  LET v == VectorSearch(ps, n, 0)
           IN /\ Chunks(v, D) /\ IdsOf(v) \subseteq IdsOf(ps)
              /\ (\E i \in DOMAIN ps : ps[i].latest) => v # <<>>
<1> DEFINE where == {i \in DOMAIN ps : ps[i].latest}
           l == Picked(ps, where)
           v == TopN(l, n)
<1>1. VectorSearch(ps, n, 0) = v
  BY DEF VectorSearch, Keep
<1>2. \A i \in where : ps[i].doc \in D
  BY DEF Chunks, Chunk
<1>3. /\ Chunks(l, D) /\ \A k \in DOMAIN l : \E i \in where : l[k] = ps[i]
      /\ \A i \in where : \E k \in DOMAIN l : l[k] = ps[i]
  <2>1. where \subseteq DOMAIN ps
    OBVIOUS
  <2> HIDE DEF where
  <2>2. QED
    BY <1>2, <2>1, PickedChunks
<1> HIDE DEF l
<1>4. /\ Chunks(v, D) /\ Len(v) = (IF Len(l) < n THEN Len(l) ELSE n)
      /\ \A i \in DOMAIN v : i \in DOMAIN l /\ v[i] = l[i]
  BY <1>3, TopChunks
<1>5. IdsOf(v) \subseteq IdsOf(ps)
  BY <1>3, <1>4 DEF IdsOf
<1>6. where # {} => v # <<>>
  <2>1. where # {} => DOMAIN l # {}
    BY <1>3
  <2>2. Len(l) \in Nat /\ DOMAIN l = 1..Len(l)
    BY <1>3, ChunksAt
  <2>3. where # {} => Len(v) # 0
    BY <1>4, <2>1, <2>2
  <2>4. QED
    BY <1>4, <2>3, ChunksAt
<1>7. QED
  BY <1>1, <1>4, <1>5, <1>6

(* A row that searchBM25 finds. *)
Searchable(r) ==
    r.latest /\ r.status \in {"indexed", "indexed_partial"} /\ r.section \notin {"references", None}

(* The rows of the latest versions. *)
LEMMA RowsFound ==
    ASSUME NEW rs, NEW D, Chunks(rs, D), NEW n \in Nat \ {0}
    PROVE  LET b == BM25Search(rs, n)
           IN /\ Chunks(b, D) /\ IdsOf(b) \subseteq IdsOf(rs)
              /\ (\E i \in DOMAIN rs : Searchable(rs[i])) => b # <<>>
<1> DEFINE where == {i \in DOMAIN rs : Searchable(rs[i])}
           l == Picked(rs, where)
           v == TopN(l, n)
           best == IF v = <<>> THEN 0 ELSE Head(v).score
           New(i) == IF best > 0 THEN (10 * v[i].score) \div best ELSE 0
           b == [i \in DOMAIN v |-> [v[i] EXCEPT !.score = New(i)]]
<1>1. BM25Search(rs, n) = b
  BY DEF BM25Search, Keep, Searchable
<1>2. \A i \in where : rs[i].doc \in D
  BY DEF Chunks, Chunk
<1>3. /\ Chunks(l, D) /\ \A k \in DOMAIN l : \E i \in where : l[k] = rs[i]
      /\ \A i \in where : \E k \in DOMAIN l : l[k] = rs[i]
  <2>1. where \subseteq DOMAIN rs
    OBVIOUS
  <2> HIDE DEF where
  <2>2. QED
    BY <1>2, <2>1, PickedChunks
<1> HIDE DEF l
<1>4. /\ Chunks(v, D) /\ Len(v) = (IF Len(l) < n THEN Len(l) ELSE n)
      /\ \A i \in DOMAIN v : i \in DOMAIN l /\ v[i] = l[i]
  BY <1>3, TopChunks
<1>5. IdsOf(v) \subseteq IdsOf(rs)
  BY <1>3, <1>4 DEF IdsOf
<1>6. where # {} => Len(v) # 0
  <2>1. where # {} => DOMAIN l # {}
    BY <1>3
  <2>2. Len(l) \in Nat /\ DOMAIN l = 1..Len(l)
    BY <1>3, ChunksAt
  <2>3. QED
    BY <1>4, <2>1, <2>2
<1> HIDE DEF v
<1>7. best \in Nat
  <2>1. /\ Len(v) \in Nat /\ DOMAIN v = 1..Len(v) /\ (v # <<>> <=> Len(v) # 0)
        /\ v \in Seq({v[i] : i \in DOMAIN v})
    BY <1>4, ChunksAt DEF Chunks
  <2>2. v # <<>> => 1 \in DOMAIN v /\ Head(v) = v[1]
    BY <2>1
  <2>3. \A i \in DOMAIN v : v[i].score \in Nat
    BY <1>4 DEF Chunks, Chunk
  <2>4. QED
    BY <2>2, <2>3
<1> HIDE DEF best
<1>8. \A i \in DOMAIN v : New(i) \in Nat
  <2>1. \A i \in DOMAIN v : v[i].score \in Nat
    BY <1>4 DEF Chunks, Chunk
  <2>2. \A m \in Nat : best > 0 => (10 * m) \div best \in Nat
    BY <1>7
  <2>3. QED
    BY <2>1, <2>2
<1>9. \A i \in DOMAIN v : Chunk(b[i], D) /\ b[i].id = v[i].id
  <2> HIDE DEF New
  <2>1. \A i \in DOMAIN v : Chunk(v[i], D)
    BY <1>4 DEF Chunks
  <2>2. QED
    BY <1>8, <2>1, Rescored
<1>10. b = [i \in DOMAIN v |-> b[i]]
  OBVIOUS
<1> HIDE DEF b
<1>11. Chunks(b, D) /\ Len(b) = Len(v) /\ IdsOf(b) = IdsOf(v)
  BY <1>4, <1>9, <1>10, SameChunks
<1>12. QED
  BY <1>1, <1>5, <1>6, <1>11, ChunksAt

(* What the points and the rows have found, by their scores together. *)
LEMMA Merged ==
    ASSUME NEW v, NEW b, NEW D, Chunks(v, D), Chunks(b, D)
    PROVE  LET m == Merge(v, b)
           IN /\ Chunks(m, D) /\ IdsOf(m) \subseteq IdsOf(v) \cup IdsOf(b)
              /\ v # <<>> \/ b # <<>> => m # <<>>
<1> DEFINE where == {i \in DOMAIN b : b[i].id \notin IdsOf(v)}
           rest == Picked(b, where)
           all == v \o rest
           New(i) == VectorWeight * ScoreIn(v, all[i].id) + BM25Weight * ScoreIn(b, all[i].id)
           fused == [i \in DOMAIN all |-> [all[i] EXCEPT !.score = New(i)]]
           m == SortDown(fused, LAMBDA c : c.score)
<1>1. Merge(v, b) = m
  BY DEF Merge, Keep
<1>2. \A i \in where : b[i].doc \in D
  BY DEF Chunks, Chunk
<1>3. /\ Chunks(rest, D) /\ \A k \in DOMAIN rest : \E i \in where : rest[k] = b[i]
      /\ \A i \in where : \E k \in DOMAIN rest : rest[k] = b[i]
  <2>1. where \subseteq DOMAIN b
    OBVIOUS
  <2> HIDE DEF where
  <2>2. QED
    BY <1>2, <2>1, PickedChunks
<1>4. \A i \in DOMAIN v : \A j \in DOMAIN rest : v[i].id # rest[j].id
  BY <1>3 DEF IdsOf
<1> HIDE DEF rest
<1>5. Joined(all, v, rest)
  BY <1>4 DEF Joined
<1> HIDE DEF all
<1>6. /\ Chunks(all, D) /\ Len(all) = Len(v) + Len(rest)
      /\ \A i \in DOMAIN all : \/ i \in DOMAIN v /\ all[i] = v[i]
                               \/ i - Len(v) \in DOMAIN rest /\ all[i] = rest[i - Len(v)]
  BY <1>3, <1>5, ConcatChunks
<1>7. IdsOf(all) \subseteq IdsOf(v) \cup IdsOf(b)
  BY <1>3, <1>6 DEF IdsOf
<1>8. v # <<>> \/ b # <<>> => Len(all) # 0
  <2>1. /\ Len(v) \in Nat /\ (v # <<>> <=> Len(v) # 0) /\ DOMAIN v = 1..Len(v)
        /\ Len(rest) \in Nat /\ DOMAIN rest = 1..Len(rest)
        /\ Len(b) \in Nat /\ (b # <<>> <=> Len(b) # 0) /\ DOMAIN b = 1..Len(b)
    BY <1>3, ChunksAt
  <2>2. CASE v # <<>>
    BY <1>6, <2>1, <2>2
  <2>3. CASE v = <<>> /\ b # <<>>
    <3>1. 1 \in DOMAIN b /\ IdsOf(v) = {}
      BY <2>1, <2>3 DEF IdsOf
    <3>2. DOMAIN rest # {}
      BY <1>3, <3>1
    <3>3. QED
      BY <1>6, <2>1, <3>2
  <2>4. QED
    BY <2>2, <2>3
<1>9. \A id : ScoreIn(v, id) \in Nat /\ ScoreIn(b, id) \in Nat
  BY TheChunk DEF ScoreIn, Chunk
<1>10. \A i \in DOMAIN all : New(i) \in Nat
  <2>1. \A x, y \in Nat : VectorWeight * x + BM25Weight * y \in Nat
    BY DEF VectorWeight, BM25Weight
  <2>2. QED
    BY <1>9, <2>1
<1> HIDE DEF New
<1>11. \A i \in DOMAIN all : Chunk(fused[i], D) /\ fused[i].id = all[i].id
  <2>1. \A i \in DOMAIN all : Chunk(all[i], D)
    BY <1>6 DEF Chunks
  <2>2. QED
    BY <1>10, <2>1, Rescored
<1>12. fused = [i \in DOMAIN all |-> fused[i]]
  OBVIOUS
<1> HIDE DEF fused
<1>13. Chunks(fused, D) /\ Len(fused) = Len(all) /\ IdsOf(fused) = IdsOf(all)
  BY <1>6, <1>11, <1>12, SameChunks
<1>14. /\ Chunks(m, D) /\ Len(m) = Len(fused)
       /\ \A n \in DOMAIN m : \E i \in DOMAIN fused : m[n] = fused[i]
  BY <1>13, SortedChunks
<1> HIDE DEF m
<1>15. IdsOf(m) \subseteq IdsOf(fused)
  BY <1>14 DEF IdsOf
<1>16. QED
  BY <1>1, <1>7, <1>8, <1>13, <1>14, <1>15, ChunksAt

(* A chunk that is hydrated is the same chunk. *)
LEMMA Hydrated ==
    ASSUME NEW cs, NEW D, Chunks(cs, D), NEW kept
    PROVE  LET t == Hydrate(cs, kept)
           IN Chunks(t, D) /\ Len(t) = Len(cs) /\ IdsOf(t) = IdsOf(cs)
<1> DEFINE t == Hydrate(cs, kept)
<1>1. t = [i \in DOMAIN cs |->
              IF cs[i].ctx = Unmarked /\ cs[i].id \in DOMAIN kept
              THEN [cs[i] EXCEPT !.ctx = kept[cs[i].id]]
              ELSE cs[i]]
  BY DEF Hydrate
<1> HIDE DEF t
<1>2. \A i \in DOMAIN cs : Chunk(t[i], D) /\ t[i].id = cs[i].id
  <2> SUFFICES ASSUME NEW i \in DOMAIN cs
               PROVE  Chunk(t[i], D) /\ t[i].id = cs[i].id
    OBVIOUS
  <2>1. Chunk(cs[i], D)
    BY DEF Chunks
  <2> DEFINE w == kept[cs[i].id]
  <2>2. t[i] = cs[i] \/ t[i] = [cs[i] EXCEPT !.ctx = w]
    BY <1>1
  <2> HIDE DEF w
  <2>3. QED
    BY <2>1, <2>2, Recontexted
<1>3. t = [i \in DOMAIN cs |-> t[i]]
  BY <1>1
<1>4. QED
  BY <1>2, <1>3, SameChunks DEF t

(* No chunk both matches and is unknown. *)
LEMMA Filtered ==
    ASSUME NEW cs, NEW D, Chunks(cs, D), NEW q
    PROVE  LET t == ContextFilters(cs, q) IN Chunks(t, D) /\ IdsOf(t) \subseteq IdsOf(cs)
<1> DEFINE V(i) == Verdicts(cs[i].ctx, q)
           one == {i \in DOMAIN cs : V(i) = {"match"}}
           two == {i \in DOMAIN cs : "unknown" \in V(i) /\ "mismatch" \notin V(i)}
           a == Picked(cs, one)
           b == Picked(cs, two)
<1>1. ContextFilters(cs, q) = a \o b
  BY DEF ContextFilters, Keep
<1>2. \A i \in DOMAIN cs : cs[i].doc \in D
  BY DEF Chunks, Chunk
<1>3. one \subseteq DOMAIN cs /\ two \subseteq DOMAIN cs /\ one \cap two = {}
  OBVIOUS
<1> HIDE DEF one, two
<1>4. /\ Chunks(a, D) /\ \A k \in DOMAIN a : \E i \in one : a[k] = cs[i]
      /\ Chunks(b, D) /\ \A k \in DOMAIN b : \E i \in two : b[k] = cs[i]
  BY <1>2, <1>3, PickedChunks
<1> HIDE DEF a, b
<1>5. \A k \in DOMAIN a : \A l \in DOMAIN b : a[k].id # b[l].id
  <2> SUFFICES ASSUME NEW k \in DOMAIN a, NEW l \in DOMAIN b, a[k].id = b[l].id
               PROVE  FALSE
    OBVIOUS
  <2>1. PICK i \in one, j \in two : a[k] = cs[i] /\ b[l] = cs[j]
    BY <1>4
  <2>2. i = j
    BY <1>3, <2>1 DEF Chunks
  <2>3. QED
    BY <1>3, <2>2
<1> DEFINE t == a \o b
<1>6. Joined(t, a, b)
  BY <1>5 DEF Joined
<1> HIDE DEF t
<1>7. /\ Chunks(t, D)
      /\ \A i \in DOMAIN t : \/ i \in DOMAIN a /\ t[i] = a[i]
                             \/ i - Len(a) \in DOMAIN b /\ t[i] = b[i - Len(a)]
  BY <1>4, <1>6, ConcatChunks
<1>8. IdsOf(t) \subseteq IdsOf(cs)
  BY <1>3, <1>4, <1>7 DEF IdsOf
<1>9. QED
  BY <1>1, <1>7, <1>8 DEF t

(* The sequence of a set has each of its elements once. *)
LEMMA SeqOfSet ==
    ASSUME NEW S, IsFiniteSet(S)
    PROVE  LET o == SetToSeq(S)
           IN /\ Cardinality(S) \in Nat /\ DOMAIN o = 1..Cardinality(S)
              /\ \A i \in DOMAIN o : o[i] \in S
              /\ \A i, j \in DOMAIN o : o[i] = o[j] => i = j
              /\ \A x \in S : \E i \in DOMAIN o : o[i] = x
<1> DEFINE N == Cardinality(S)
           o == SetToSeq(S)
<1>1. N \in Nat /\ ExistsBijection(1..N, S)
  BY FS_CardinalityType
<1>2. \E f \in [1..N -> S] : IsInjective(f)
  BY <1>1 DEF ExistsBijection, Bijection, Injection
<1>3. o \in [1..N -> S] /\ IsInjective(o)
  BY <1>2 DEF SetToSeq
<1> HIDE DEF o
<1>4. o \in Injection(1..N, S)
  BY <1>3 DEF Injection
<1>5. Cardinality(1..N) = N
  BY <1>1, FS_Interval
<1>6. o \in Surjection(1..N, S)
  BY <1>4, <1>5, FS_Injection
<1>7. QED
  BY <1>1, <1>3, <1>6 DEF o, IsInjective, Surjection

(* The reranker has an order of what was met, or is unavailable: the chunks it
   has scored are kept, and there is one when there was. *)
LEMMA Reranked ==
    ASSUME NEW cs, NEW D, Chunks(cs, D), NEW M, IsFiniteSet(M), IdsOf(cs) \subseteq M,
           NEW order, order = <<>> \/ order = SetToSeq(M)
    PROVE  LET t == Rerank(cs, order)
           IN Chunks(t, D) /\ (cs # <<>> => t # <<>>)
<1> DEFINE top == TopN(cs, RerankCount)
           where == {i \in DOMAIN order : order[i] \in IdsOf(top)}
           scored == Picked(order, where)
           N == Cardinality(where)
           t == [i \in DOMAIN scored |-> WithId(top, scored[i])]
<1>1. Rerank(cs, order) = IF order = <<>> \/ cs = <<>> THEN cs ELSE t
  BY DEF Rerank, Keep
<1>2. CASE order = <<>> \/ cs = <<>>
  BY <1>1, <1>2
<1>3. CASE order # <<>> /\ cs # <<>>
  <2>1. /\ Cardinality(M) \in Nat /\ DOMAIN order = 1..Cardinality(M)
        /\ \A i, j \in DOMAIN order : order[i] = order[j] => i = j
        /\ \A x \in M : \E i \in DOMAIN order : order[i] = x
    BY <1>3, SeqOfSet
  <2>2. /\ Chunks(top, D) /\ Len(top) = (IF Len(cs) < RerankCount THEN Len(cs) ELSE RerankCount)
        /\ \A i \in DOMAIN top : i \in DOMAIN cs /\ top[i] = cs[i]
    <3>1. RerankCount \in Nat
      BY DEF RerankCount
    <3>2. QED
      BY <3>1, TopChunks
  <2>3. IsFiniteSet(where) /\ where \subseteq Nat
    <3>1. IsFiniteSet(DOMAIN order) /\ where \subseteq DOMAIN order
      BY <2>1, FS_Interval
    <3> HIDE DEF where
    <3>2. QED
      BY <2>1, <3>1, FS_Subset
  <2>4. \E i \in DOMAIN top : top[i].id \in M
    <3>1. Len(cs) \in Nat /\ Len(cs) # 0 /\ DOMAIN cs = 1..Len(cs)
      BY <1>3, ChunksAt
    <3>2. Len(top) \in Nat /\ DOMAIN top = 1..Len(top)
      BY <2>2, ChunksAt
    <3>3. RerankCount = 15
      BY DEF RerankCount
    <3> HIDE DEF top
    <3>4. 1 \in DOMAIN top
      BY <2>2, <3>1, <3>2, <3>3
    <3>5. QED
      BY <2>2, <3>4 DEF IdsOf
  <2> HIDE DEF top
  <2>5. where # {}
    <3>1. PICK i \in DOMAIN top : top[i].id \in M
      BY <2>4
    <3>2. PICK k \in DOMAIN order : order[k] = top[i].id
      BY <2>1, <3>1
    <3>3. top[i].id \in IdsOf(top)
      BY DEF IdsOf
    <3>4. k \in where
      BY <3>2, <3>3
    <3>5. QED
      BY <3>4
  <2>6. /\ N \in Nat /\ scored = [n \in 1..N |-> scored[n]]
        /\ \E f : PickedBy(f, order, where)
    BY <2>3, PickedFrom
  <2>7. PICK f : PickedBy(f, order, where)
    BY <2>6
  <2>8. /\ \A n \in 1..N : f[n] \in where /\ scored[n] = order[f[n]]
        /\ \A n, m \in 1..N : f[n] = f[m] => n = m
    BY <2>7 DEF PickedBy
  <2>9. N # 0
    BY <2>3, <2>5, FS_EmptySet
  <2> HIDE DEF scored, N
  <2>10. \A n \in 1..N : scored[n] \in IdsOf(top)
    BY <2>8
  <2>11. \A n, m \in 1..N : scored[n] = scored[m] => n = m
    BY <2>1, <2>8
  <2> HIDE DEF where
  <2>12. DOMAIN scored = 1..N
    BY <2>6
  <2>13. \A n \in 1..N : Chunk(t[n], D) /\ t[n].id = scored[n]
    BY <2>2, <2>10, <2>12, TheChunk
  <2>14. t = [n \in 1..N |-> t[n]]
    BY <2>12
  <2> HIDE DEF t
  <2>15. /\ t \in Seq({t[i] : i \in DOMAIN t}) /\ DOMAIN t = 1..N
         /\ t = <<>> <=> N = 0
    BY <2>6, <2>14, FromFunction
  <2>16. Chunks(t, D)
    BY <2>11, <2>13, <2>15 DEF Chunks
  <2>17. QED
    BY <1>1, <1>3, <2>9, <2>15, <2>16
<1>4. QED
  BY <1>2, <1>3

(* What is left of the chunks when documents are deleted or not wanted. *)
LEMMA Wanted ==
    ASSUME NEW cs, NEW D, Chunks(cs, D), NEW q, NEW docs
    PROVE  LET t == DocumentFilter(cs, q, docs, FALSE)
           IN /\ Chunks(t, D)
              /\ Unfiltered(q) /\ D \subseteq FetchDocuments(D, docs) /\ cs # <<>> => t # <<>>
<1> DEFINE live == FetchDocuments(DocsOf(cs), docs)
           where == {i \in DOMAIN cs : cs[i].doc \in live /\ PassesFilters(docs[cs[i].doc], q, FALSE)}
           t == Picked(cs, where)
<1>1. DocumentFilter(cs, q, docs, FALSE) = t
  BY DEF DocumentFilter, Keep
<1>2. where \subseteq DOMAIN cs
  OBVIOUS
<1>3. \A i \in DOMAIN cs : cs[i].doc \in D
  BY DEF Chunks, Chunk
<1>4. ASSUME Unfiltered(q), D \subseteq FetchDocuments(D, docs), NEW i \in DOMAIN cs
      PROVE  i \in where
  <2>1. cs[i].doc \in live
    BY <1>3, <1>4 DEF FetchDocuments, DocsOf
  <2>2. PassesFilters(docs[cs[i].doc], q, FALSE)
    BY <1>4 DEF PassesFilters, Unfiltered
  <2>3. QED
    BY <2>1, <2>2
<1> HIDE DEF where
<1>5. Chunks(t, D) /\ \A i \in where : \E n \in DOMAIN t : t[n] = cs[i]
  BY <1>2, <1>3, PickedChunks
<1> HIDE DEF t
<1>6. ASSUME Unfiltered(q), D \subseteq FetchDocuments(D, docs), cs # <<>> PROVE t # <<>>
  <2>1. 1 \in DOMAIN cs
    BY <1>6, ChunksAt
  <2>2. DOMAIN t # {}
    BY <1>4, <1>5, <1>6, <2>1
  <2>3. QED
    BY <1>5, <2>2, ChunksAt
<1>7. QED
  BY <1>1, <1>5, <1>6

(* The cap keeps the first chunk, and those it keeps are in their order. *)
LEMMA Diversified ==
    ASSUME NEW cs, NEW D, Chunks(cs, D), NEW by, NEW max \in Nat \ {0}
    PROVE  LET t == Diversify(cs, by, max)
           IN Chunks(t, D) /\ (cs # <<>> => t # <<>>)
<1> DEFINE key(c) == DiversifyKey(c, by)
           where == {i \in DOMAIN cs :
                     key(cs[i]) = None \/ Cardinality({j \in 1..(i - 1) : key(cs[j]) = key(cs[i])}) < max}
           t == Picked(cs, where)
<1>1. Diversify(cs, by, max) = t
  BY DEF Diversify, CapPer, SelectAt
<1>2. where \subseteq DOMAIN cs
  OBVIOUS
<1>3. \A i \in DOMAIN cs : cs[i].doc \in D
  BY DEF Chunks, Chunk
<1>4. 1 \in DOMAIN cs => 1 \in where
  <2>1. {j \in 1..(1 - 1) : key(cs[j]) = key(cs[1])} = {}
    <3>1. 1..(1 - 1) = {}
      OBVIOUS
    <3>2. QED
      BY <3>1
  <2>2. Cardinality({j \in 1..(1 - 1) : key(cs[j]) = key(cs[1])}) < max
    <3>1. Cardinality({}) = 0
      BY FS_EmptySet
    <3>2. QED
      BY <2>1, <3>1
  <2>3. QED
    BY <2>2
<1> HIDE DEF where
<1>5. Chunks(t, D) /\ \A i \in where : \E n \in DOMAIN t : t[n] = cs[i]
  BY <1>2, <1>3, PickedChunks
<1> HIDE DEF t
<1>6. ASSUME cs # <<>> PROVE t # <<>>
  <2>1. 1 \in DOMAIN cs
    BY <1>6, ChunksAt
  <2>2. DOMAIN t # {}
    BY <1>4, <1>5, <2>1
  <2>3. QED
    BY <1>5, <2>2, ChunksAt
<1>7. QED
  BY <1>1, <1>5, <1>6

(* What an answer keeps of its search. *)
AnswerOf(a, q, D) ==
    /\ Chunks(a.pool, D)
    /\ a.total = Len(Diversify(a.pool, q.by, q.max))
    /\ a.results = TopN(Diversify(a.pool, q.by, q.max), q.limit)

(* The stages after the retrieval: an answer is of the chunks of the retrieval,
   and a search without filters has one when the retrieval had. *)
LEMMA RankedAnswer ==
    ASSUME NEW cs, NEW D, Chunks(cs, D), NEW M, IsFiniteSet(M), IdsOf(cs) \subseteq M,
           NEW order, order = <<>> \/ order = SetToSeq(M), NEW q, NEW kept, NEW docs,
           q.limit \in Nat \ {0}, q.max \in Nat \ {0}
    PROVE  LET a == Ranked(cs, q, kept, order, docs)
           IN /\ AnswerOf(a, q, D)
              /\ Unfiltered(q) /\ D \subseteq FetchDocuments(D, docs) /\ cs # <<>> => a.results # <<>>
<1> DEFINE known == Hydrate(cs, kept)
           wanted == IF q.types = {} /\ q.entities = {} THEN known ELSE ContextFilters(known, q)
           ordered == IF q.rerank THEN Rerank(wanted, order) ELSE wanted
           left == DocumentFilter(ordered, q, docs, FALSE)
           spread == Diversify(left, q.by, q.max)
           a == Ranked(cs, q, kept, order, docs)
<1>1. a = Answer(left, q)
  BY DEF Ranked
<1> HIDE DEF a
<1>2. a.pool = left /\ a.total = Len(spread) /\ a.results = TopN(spread, q.limit)
  BY <1>1 DEF Answer
<1> HIDE DEF left
<1>3. Chunks(known, D) /\ Len(known) = Len(cs) /\ IdsOf(known) = IdsOf(cs)
  BY Hydrated
<1> HIDE DEF known
<1>4. Chunks(wanted, D) /\ IdsOf(wanted) \subseteq M /\ (Unfiltered(q) => wanted = known)
  BY <1>3, Filtered DEF Unfiltered
<1> HIDE DEF wanted
<1>5. Chunks(ordered, D) /\ (wanted # <<>> => ordered # <<>>)
  BY <1>4, Reranked
<1> HIDE DEF ordered
<1>6. /\ Chunks(left, D)
      /\ Unfiltered(q) /\ D \subseteq FetchDocuments(D, docs) /\ ordered # <<>> => left # <<>>
  BY <1>5, Wanted DEF left
<1>7. Chunks(spread, D) /\ (left # <<>> => spread # <<>>)
  BY <1>6, Diversified
<1>8. AnswerOf(a, q, D)
  BY <1>2, <1>6 DEF AnswerOf
<1> HIDE DEF spread
<1>9. spread # <<>> => TopN(spread, q.limit) # <<>>
  <2>1. /\ Chunks(TopN(spread, q.limit), D)
        /\ Len(TopN(spread, q.limit)) = (IF Len(spread) < q.limit THEN Len(spread) ELSE q.limit)
    BY <1>7, TopChunks
  <2>2. QED
    BY <1>7, <2>1, ChunksAt
<1>10. cs # <<>> => known # <<>>
  BY <1>3, ChunksAt
<1>11. QED
  BY <1>2, <1>4, <1>5, <1>6, <1>7, <1>8, <1>9, <1>10 DEF a

(* How many candidates are asked for. *)
LEMMA Candidates ==
    ASSUME NEW limit \in Nat \ {0}, NEW rerank, NEW filtered
    PROVE  CandidateCount(limit, rerank, filtered) \in Nat \ {0}
BY DEF CandidateCount, AtLeast

(* Chunks of more documents. *)
LEMMA MoreChunks ==
    ASSUME NEW cs, NEW D, Chunks(cs, D), NEW E, D \subseteq E
    PROVE  Chunks(cs, E)
BY DEF Chunks, Chunk

(* There are finitely many ids. *)
LEMMA IdsFinite ==
    ASSUME NEW cs, NEW D, Chunks(cs, D)
    PROVE  IsFiniteSet(IdsOf(cs))
<1>1. IsFiniteSet(DOMAIN cs)
  BY ChunksAt
<1> DEFINE f == [i \in DOMAIN cs |-> cs[i].id]
<1>2. f \in Surjection(DOMAIN cs, IdsOf(cs))
  BY DEF IdsOf, Surjection
<1>3. QED
  BY <1>1, <1>2, FS_Surjection

(* A page of the chunks behind an offset. *)
LEMMA PageOf ==
    ASSUME NEW cs, NEW D, Chunks(cs, D), NEW o \in Nat, o < Len(cs), NEW n \in Nat \ {0}
    PROVE  LET page == TopN(SubSeq(cs, o + 1, Len(cs)), n)
           IN /\ Chunks(page, D)
              /\ \A k \in DOMAIN page : o + k \in DOMAIN cs /\ k <= n /\ page[k] = cs[o + k]
              /\ \A i \in DOMAIN cs : o < i /\ i <= o + n => i - o \in DOMAIN page
<1> DEFINE L == Len(cs) - o
           rest == SubSeq(cs, o + 1, Len(cs))
           page == TopN(rest, n)
           S == {cs[i] : i \in DOMAIN cs}
           f == [k \in 1..L |-> o + k]
<1>1. Len(cs) \in Nat /\ DOMAIN cs = 1..Len(cs)
  BY ChunksAt
<1>2. L \in Nat
  BY <1>1
<1>3. cs \in Seq(S)
  BY DEF Chunks
<1> HIDE DEF S
<1>4. rest = [k \in 1..L |-> cs[k + o]]
  BY <1>1, <1>3
<1> HIDE DEF rest
<1>5. f \in [1..L -> DOMAIN cs] /\ \A k \in 1..L : f[k] = o + k
  BY <1>1
<1>6. rest = [k \in 1..L |-> rest[k]] /\ \A k \in 1..L : rest[k] = cs[o + k] /\ o + k \in DOMAIN cs
  <2>1. \A k \in 1..L : k + o = o + k /\ o + k \in DOMAIN cs
    BY <1>1
  <2> HIDE DEF L
  <2>2. QED
    BY <1>4, <2>1
<1>7. \A j, k \in 1..L : f[j] = f[k] => j = k
  BY <1>5
<1> HIDE DEF f, L
<1>8. \A k \in 1..L : Chunk(rest[k], D) /\ rest[k].id = cs[f[k]].id
  BY <1>5, <1>6 DEF Chunks
<1>9. rest = [k \in 1..L |-> rest[k]]
  BY <1>6
<1>10. Chunks(rest, D) /\ Len(rest) = L /\ DOMAIN rest = 1..L
  BY <1>2, <1>5, <1>7, <1>8, <1>9, ChunksFrom
<1>11. /\ Chunks(page, D) /\ Len(page) = (IF L < n THEN L ELSE n)
       /\ \A k \in DOMAIN page : k \in DOMAIN rest /\ page[k] = rest[k]
  BY <1>10, TopChunks
<1> HIDE DEF page
<1>12. DOMAIN page = 1..(IF L < n THEN L ELSE n)
  BY <1>11, ChunksAt
<1>13. \A k \in DOMAIN page : o + k \in DOMAIN cs /\ k <= n /\ page[k] = cs[o + k]
  <2>1. \A k \in 1..(IF L < n THEN L ELSE n) : k <= n
    BY <1>2
  <2>2. QED
    BY <1>6, <1>10, <1>11, <1>12, <2>1
<1>14. \A i \in DOMAIN cs : o < i /\ i <= o + n => i - o \in DOMAIN page
  <2>1. \A i \in 1..Len(cs) : o < i /\ i <= o + n => i - o \in 1..(IF L < n THEN L ELSE n)
    BY <1>1 DEF L
  <2>2. QED
    BY <1>1, <1>12, <2>1
<1>15. QED
  BY <1>11, <1>13, <1>14 DEF page, rest

(* Every place has the offset of a page before it. *)
LEMMA OffsetOf ==
    ASSUME NEW n \in Nat, NEW l \in Nat \ {0}
    PROVE  \E o \in 0..n : n < o + l /\ o % l = 0
<1> DEFINE k == n \div l
           o == k * l
<1>1. k \in Nat /\ n = l * k + (n % l) /\ (n % l) \in 0..(l - 1)
  OBVIOUS
<1> HIDE DEF k
<1>2. (k * l) % l = 0
  BY <1>1
<1>3. o \in Nat /\ o <= n /\ n < o + l
  BY <1>1
<1>4. QED
  BY <1>2, <1>3

-----------------------------------------------------------------------------
(* What a search may rest on. *)

(* A version has lost its flag only when a newer one has rows. *)
OldHasNewer ==
    \A d \in Document : rows[d] = "old" =>
        \E e \in Document : version[d] < version[e] /\ rows[e] # "none"

(* When versions are met in their order, whatever flag is lost, an indexing is
   the only one, its rows and points are latest, and what it still has to flag
   has lost the flag of its rows. *)
InTurn ==
    ~disorder =>
        /\ OneByOne
        /\ \A d \in Document :
             /\ pc[d] # "idle" => rows[d] = "latest"
             /\ pc[d] \in {"select", "update", "flag"} => points[d].latest
             /\ pc[d] = "flag" => \A e \in todo[d] : rows[e] # "latest"

Indexed == OldHasNewer /\ InTurn

(* Throughout the reads of a steady search there is something to be found. *)
SomethingThere ==
    steady => /\ ~disorder
              /\ reading \in {"retrieve", "fetch", "answered"} => tombs = <<>>
              /\ reading \in {"retrieve", "fetch"} => \E d \in Document : Findable(d)

(* What has been read is of versions that exist, and has a hit. *)
Retrieved ==
    /\ reading \in {"none", "idle", "retrieve", "fetch", "answered"}
    /\ reading \in {"retrieve", "fetch", "answered"} => request \in Requests
    /\ reading \notin {"retrieve", "fetch"} => vector = None /\ bm25 = None
    /\ reading = "fetch" => (UsesPoints => vector # None) /\ (UsesRows => bm25 # None)
    /\ vector # None => Chunks(vector, Created) /\ (steady => \E i \in DOMAIN vector : vector[i].latest)
    /\ bm25 # None => Chunks(bm25, Created) /\ (steady => \E i \in DOMAIN bm25 : Searchable(bm25[i]))

(* The pool of the answer, as every page diversifies it. *)
Spread == Diversify(answer.pool, request.by, request.max)

(* A page has the chunks of its part of the pool whose documents were there. *)
OnPage(o) ==
    \A id : id \in pages[o].ids <=>
        \E i \in DOMAIN Spread : /\ o < i /\ i <= o + request.limit
                                /\ Spread[i].id = id /\ Spread[i].doc \notin pages[o].dead

(* The pages are cut from the pool of the answer. *)
Walked ==
    /\ reading # "answered" => paging = None /\ pages = NoPages
    /\ paging # None => paging \in 0..MaxOffset /\ pool # None /\ paging < answer.total
    /\ DOMAIN pages = 0..MaxOffset
    /\ reading = "answered" =>
         /\ AnswerOf(answer, request, Created)
         /\ steady /\ Unfiltered(request) => answer.results # <<>>
         /\ pool # None => pool = [pool |-> answer.pool, by |-> request.by, max |-> request.max]
         /\ \A o \in DOMAIN pages : pages[o] # None => OnPage(o)

(* The inductive invariant of a reader next to the stores. *)
ReadInv == faults \in Nat /\ SomethingThere /\ Retrieved /\ Walked

-----------------------------------------------------------------------------
(* Where no flag and no place of an indexing changes. *)
LEMMA IndexedSame ==
    ASSUME Indexed, UNCHANGED <<version, rows, pc, todo, disorder>>,
           \A e \in Document : points'[e].latest = points[e].latest
    PROVE  Indexed'
BY DEF Indexed, OldHasNewer, InTurn, OneByOne

(* A new version has no rows. *)
LEMMA IndexedCreated ==
    ASSUME VersionInv, Indexed, NEW d \in Document, NEW p \in Document, CreateVersion(d, p)
    PROVE  Indexed'
<1>1. /\ version[d] = 0 /\ version' = [version EXCEPT ![d] = version[p] + 1]
      /\ UNCHANGED <<rows, points, pc, todo, disorder>>
  BY DEF CreateVersion, indexer, history
<1>2. rows[d] = "none"
  BY <1>1 DEF VersionInv, RowsFirst, Created
<1>3. \A e \in Document : rows[e] # "none" => version'[e] = version[e]
  BY <1>1, <1>2 DEF VersionInv, StoreTypes
<1>4. OldHasNewer'
  BY <1>1, <1>3 DEF Indexed, OldHasNewer
<1>5. OneByOne => OneByOne'
  BY <1>1, <1>3 DEF VersionInv, OneByOne, OlderOnly
<1>6. QED
  BY <1>1, <1>4, <1>5 DEF Indexed, InTurn

(* An indexing that meets nothing as new has latest rows: an old version has a
   newer one with rows. *)
LEMMA IndexedRows ==
    ASSUME VersionInv, Indexed, NEW d \in Document, IndexRows(d)
    PROVE  Indexed'
<1>1. /\ pc[d] = "idle" /\ d \in Created /\ version' = version /\ todo' = todo
      /\ pc' = [pc EXCEPT ![d] = "upsert"]
      /\ disorder' = (disorder \/ \E e \in Created \ {d} :
                        pc[e] # "idle" \/ (version[e] >= version[d] /\ rows[e] # "none"))
      /\ \/ /\ rows' = [rows EXCEPT ![d] = "latest"]
            /\ points' = [points EXCEPT ![d] = NoPoints] \/ points' = points
         \/ rows[d] # "none" /\ rows' = rows /\ points' = points
  BY DEF IndexRows, Goto
<1>2. /\ \A e \in Document : version[e] \in Nat /\ rows[e] \in {"none", "latest", "old"}
      /\ \A e \in Document : rows'[e] \in {"none", "latest", "old"}
      /\ \A e \in Document \ {d} : rows'[e] = rows[e] /\ pc'[e] = pc[e]
      /\ rows'[d] = "latest" \/ (rows[d] # "none" /\ rows'[d] = rows[d])
      /\ pc'[d] = "upsert"
  BY <1>1 DEF VersionInv, StoreTypes
<1>3. OldHasNewer'
  BY <1>1, <1>2 DEF Indexed, OldHasNewer
<1>4. ASSUME ~disorder'
      PROVE  InTurn'
  <2>1. ~disorder
    BY <1>1, <1>4 DEF VersionInv, StoreTypes
  <2>2. \A e \in Document \ {d} : pc[e] = "idle" /\ (rows[e] # "none" => version[e] < version[d])
    <3>1. \A e \in Created \ {d} : pc[e] = "idle" /\ (rows[e] # "none" => ~(version[e] >= version[d]))
      BY <1>1, <1>4
    <3>2. QED
      BY <1>2, <3>1 DEF VersionInv, RowsFirst, OlderOnly
  <2>3. OneByOne'
    BY <1>1, <1>2, <2>2 DEF OneByOne
  <2>4. rows'[d] = "latest"
    <3>1. rows[d] # "old"
      BY <1>2, <2>2 DEF Indexed, OldHasNewer
    <3>2. QED
      BY <1>2, <3>1
  <2>5. \A e \in Document : pc'[e] # "idle" => e = d /\ pc'[e] = "upsert"
    BY <1>2, <2>2
  <2>6. QED
    BY <2>3, <2>4, <2>5 DEF InTurn
<1>5. QED
  BY <1>3, <1>4 DEF Indexed, InTurn

(* The points of an indexing are latest. *)
LEMMA IndexedPoints ==
    ASSUME VersionInv, Indexed, NEW d \in Document, Upsert(d)
    PROVE  Indexed'
<1>1. /\ pc[d] = "upsert" /\ UNCHANGED <<version, rows, todo, disorder>>
      /\ points' = [points EXCEPT ![d] = [there |-> TRUE, latest |-> TRUE, deleted |-> FALSE]]
      /\ pc' = [pc EXCEPT ![d] = IF version[d] > 1 THEN "select" ELSE "idle"]
  BY DEF Upsert, Goto, postgres, history
<1>2. /\ points'[d].latest /\ pc'[d] \in {"select", "idle"}
      /\ \A e \in Document \ {d} : points'[e] = points[e] /\ pc'[e] = pc[e]
  BY <1>1 DEF VersionInv, StoreTypes
<1>3. OldHasNewer'
  BY <1>1 DEF Indexed, OldHasNewer
<1>4. ASSUME ~disorder
      PROVE  InTurn'
  <2>1. OneByOne'
    BY <1>1, <1>2, <1>4 DEF Indexed, InTurn, OneByOne
  <2>2. \A e \in Document : pc'[e] # "idle" => pc[e] # "idle"
    BY <1>1, <1>2
  <2>3. \A e \in Document : pc'[e] = "flag" => e # d
    BY <1>2
  <2>4. QED
    BY <1>1, <1>2, <1>4, <2>1, <2>2, <2>3 DEF Indexed, InTurn
<1>5. QED
  BY <1>1, <1>3, <1>4 DEF Indexed, InTurn

(* The versions below are looked up. *)
LEMMA IndexedSelect ==
    ASSUME VersionInv, Indexed, NEW d \in Document, SelectOlder(d)
    PROVE  Indexed'
<1>1. /\ pc[d] = "select" /\ UNCHANGED <<version, rows, points, disorder>>
      /\ todo' = [todo EXCEPT ![d] = Older(d)]
      /\ pc' = [pc EXCEPT ![d] = IF todo'[d] = {} THEN "idle" ELSE "update"]
  BY DEF SelectOlder, Goto, postgres, history
<1>2. /\ pc'[d] \in {"update", "idle"}
      /\ \A e \in Document \ {d} : todo'[e] = todo[e] /\ pc'[e] = pc[e]
  BY <1>1 DEF VersionInv, StoreTypes
<1>3. OldHasNewer'
  BY <1>1 DEF Indexed, OldHasNewer
<1>4. ASSUME ~disorder
      PROVE  InTurn'
  <2>1. OneByOne'
    BY <1>1, <1>2, <1>4 DEF Indexed, InTurn, OneByOne
  <2>2. \A e \in Document : pc'[e] = "flag" => e # d
    BY <1>2
  <2>3. \A e \in Document : pc'[e] # "idle" => rows[e] = "latest"
    BY <1>1, <1>2, <1>4 DEF Indexed, InTurn
  <2>4. \A e \in Document : pc'[e] \in {"select", "update", "flag"} => points[e].latest
    BY <1>1, <1>2, <1>4 DEF Indexed, InTurn
  <2>5. \A e \in Document : pc'[e] = "flag" => \A c \in todo'[e] : rows[c] # "latest"
    BY <1>1, <1>2, <1>4, <2>2 DEF Indexed, InTurn
  <2>6. QED
    BY <1>1, <2>1, <2>3, <2>4, <2>5 DEF InTurn
<1>5. QED
  BY <1>1, <1>3, <1>4 DEF Indexed, InTurn

(* The rows of older versions lose their flag to a version with rows. *)
LEMMA IndexedUpdate ==
    ASSUME VersionInv, Indexed, NEW d \in Document, UpdateRows(d)
    PROVE  Indexed'
<1>1. /\ pc[d] = "update" /\ UNCHANGED <<version, points, todo, disorder>>
      /\ rows' = [e \in Document |-> IF e \in todo[d] /\ rows[e] = "latest" THEN "old" ELSE rows[e]]
      /\ pc' = [pc EXCEPT ![d] = "flag"]
  BY DEF UpdateRows, Goto, history
<1>2. /\ pc'[d] = "flag" /\ \A e \in Document \ {d} : pc'[e] = pc[e]
      /\ rows[d] # "none" /\ todo[d] \subseteq Older(d)
      /\ \A e \in Document : version[e] \in Nat /\ rows'[e] # "none" <=> rows[e] # "none"
  <2>1. pc'[d] = "flag" /\ \A e \in Document \ {d} : pc'[e] = pc[e]
    BY <1>1 DEF VersionInv, StoreTypes
  <2>2. rows[d] # "none" /\ todo[d] \subseteq Older(d)
    BY <1>1 DEF VersionInv, OlderOnly
  <2>3. \A e \in Document : version[e] \in Nat /\ (rows'[e] # "none" <=> rows[e] # "none")
    BY <1>1 DEF VersionInv, StoreTypes
  <2>4. QED
    BY <2>1, <2>2, <2>3
<1>3. d \notin todo[d] /\ \A e \in todo[d] : version[e] < version[d]
  BY <1>2 DEF Older
<1>4. OldHasNewer'
  <2> SUFFICES ASSUME NEW e \in Document, rows'[e] = "old"
               PROVE  \E c \in Document : version[e] < version[c] /\ rows'[c] # "none"
    BY <1>1 DEF OldHasNewer
  <2>1. CASE rows[e] = "old"
    BY <1>2, <2>1 DEF Indexed, OldHasNewer
  <2>2. CASE rows[e] # "old"
    <3>1. e \in todo[d]
      BY <1>1, <2>2
    <3>2. version[e] < version[d] /\ rows'[d] # "none"
      BY <1>2, <1>3, <3>1
    <3>3. QED
      BY <3>2
  <2>3. QED
    BY <2>1, <2>2
<1>5. ASSUME ~disorder
      PROVE  InTurn'
  <2>1. OneByOne /\ \A e \in Document \ {d} : pc[e] = "idle"
    BY <1>1, <1>5 DEF Indexed, InTurn, OneByOne
  <2>2. OneByOne'
    BY <1>1, <1>2, <2>1 DEF OneByOne
  <2>3. rows'[d] = "latest" /\ points[d].latest
    BY <1>1, <1>3, <1>5 DEF Indexed, InTurn
  <2>4. \A e \in todo[d] : rows'[e] # "latest"
    BY <1>1 DEF VersionInv, StoreTypes
  <2>5. QED
    BY <1>1, <1>2, <2>1, <2>2, <2>3, <2>4 DEF InTurn
<1>6. QED
  BY <1>1, <1>4, <1>5 DEF Indexed, InTurn

(* The flag of a point is taken, or that is given up. *)
LEMMA IndexedFlag ==
    ASSUME VersionInv, Indexed, NEW d \in Document, NEW x \in Document, FlagPoints(d, x)
    PROVE  Indexed'
<1>1. /\ pc[d] = "flag" /\ x \in todo[d] /\ UNCHANGED <<version, rows, disorder>>
      /\ points' = [points EXCEPT ![x] = WithLatest(@, FALSE)] \/ points' = points
      /\ todo' = [todo EXCEPT ![d] = @ \ {x}]
      /\ pc' = [pc EXCEPT ![d] = IF todo'[d] = {} THEN "idle" ELSE "flag"]
  BY DEF FlagPoints, Goto, postgres
<1>2. /\ pc'[d] \in {"flag", "idle"} /\ \A e \in Document \ {d} : pc'[e] = pc[e] /\ todo'[e] = todo[e]
      /\ todo'[d] \subseteq todo[d] /\ \A e \in Document \ {x} : points'[e] = points[e]
  BY <1>1 DEF VersionInv, StoreTypes
<1>3. OldHasNewer'
  BY <1>1 DEF Indexed, OldHasNewer
<1>4. ASSUME ~disorder
      PROVE  InTurn'
  <2>1. OneByOne /\ \A e \in Document \ {d} : pc[e] = "idle"
    BY <1>1, <1>4 DEF Indexed, InTurn, OneByOne
  <2>2. OneByOne'
    BY <1>1, <1>2, <2>1 DEF OneByOne
  <2>3. x # d
    BY <1>1 DEF VersionInv, StoreTypes, OlderOnly, Older
  <2>4. rows[d] = "latest" /\ points'[d].latest
    BY <1>1, <1>2, <1>4, <2>3 DEF Indexed, InTurn
  <2>5. pc'[d] = "flag" => \A e \in todo'[d] : rows[e] # "latest"
    BY <1>1, <1>2, <1>4 DEF Indexed, InTurn
  <2>6. QED
    BY <1>1, <1>2, <2>1, <2>2, <2>4, <2>5 DEF InTurn
<1>5. QED
  BY <1>1, <1>3, <1>4 DEF Indexed, InTurn

(* An execution is over. *)
LEMMA IndexedOver ==
    ASSUME VersionInv, Indexed, NEW d \in Document, IndexFails(d)
    PROVE  Indexed'
<1>1. /\ UNCHANGED <<version, rows, points, disorder>>
      /\ todo' = [todo EXCEPT ![d] = {}] /\ pc' = [pc EXCEPT ![d] = "idle"]
  BY DEF IndexFails, Goto, postgres
<1>2. pc'[d] = "idle" /\ \A e \in Document \ {d} : pc'[e] = pc[e] /\ todo'[e] = todo[e]
  BY <1>1 DEF VersionInv, StoreTypes
<1>3. OldHasNewer'
  BY <1>1 DEF Indexed, OldHasNewer
<1>4. ASSUME ~disorder
      PROVE  InTurn'
  <2>1. OneByOne'
    BY <1>1, <1>2, <1>4 DEF Indexed, InTurn, OneByOne
  <2>2. QED
    BY <1>1, <1>2, <1>4, <2>1 DEF Indexed, InTurn
<1>5. QED
  BY <1>1, <1>3, <1>4 DEF Indexed, InTurn

(* An administrator, the reconciliation and a reader change no flag and no
   place of an indexing. *)
LEMMA OnlyDeleted ==
    ASSUME VersionInv, (\E d \in Document : Admin(d)) \/ Loop \/ UNCHANGED storeVars
    PROVE  /\ UNCHANGED <<version, rows, pc, todo, disorder>>
           /\ \A e \in Document : points'[e].latest = points[e].latest
<1>1. ASSUME NEW d \in Document, SoftDelete(d) \/ Restore(d)
      PROVE  UNCHANGED <<version, rows, pc, todo, disorder, points>>
  BY <1>1 DEF SoftDelete, Restore, indexer, history
<1>2. ASSUME NEW d \in Document, NEW value \in BOOLEAN, Flip(d, value)
      PROVE  /\ UNCHANGED <<version, rows, pc, todo, disorder>>
             /\ \A e \in Document : points'[e].latest = points[e].latest
  <2>1. /\ UNCHANGED <<version, rows, pc, todo, disorder>>
        /\ points' = [points EXCEPT ![d] = WithDeleted(@, value)] \/ points' = points
    BY <1>2 DEF Flip, postgres, indexer, history
  <2>2. QED
    BY <2>1, DeletedFlag
<1>3. CASE TickDeleted \/ TickRestored \/ TickEnds \/ UNCHANGED storeVars
  BY <1>3 DEF TickDeleted, TickRestored, TickEnds, postgres, indexer, history, storeVars
<1>4. CASE TickSends
  <2>1. /\ UNCHANGED <<version, rows, pc, todo, disorder>>
        /\ \/ points' = [points EXCEPT ![Head(batch)] = WithDeleted(@, tick = "deleted")]
           \/ points' = points
    BY <1>4 DEF TickSends, postgres, indexer, history
  <2>2. (tick = "deleted") \in BOOLEAN
    OBVIOUS
  <2>3. QED
    BY <2>1, <2>2, DeletedFlag
<1>5. QED
  BY <1>1, <1>2, <1>3, <1>4 DEF Admin, Loop

(* Every step of the stores keeps that. *)
LEMMA IndexedKeeps == VersionInv /\ Indexed /\ [VersionsNext]_storeVars => Indexed'
<1> SUFFICES ASSUME VersionInv, Indexed, [VersionsNext]_storeVars
             PROVE  Indexed'
  OBVIOUS
<1>1. ASSUME NEW d \in Document, Indexer(d)
      PROVE  Indexed'
  BY <1>1, IndexedRows, IndexedPoints, IndexedSelect, IndexedUpdate, IndexedOver, IndexedFlag DEF Indexer
<1>2. ASSUME NEW d \in Document, NEW previous \in Document, CreateVersion(d, previous)
      PROVE  Indexed'
  BY <1>2, IndexedCreated
<1>3. ASSUME \/ \E d \in Document : Admin(d)
             \/ Loop
             \/ UNCHANGED storeVars
      PROVE  Indexed'
  BY <1>3, OnlyDeleted, IndexedSame
<1>4. QED
  BY <1>1, <1>2, <1>3 DEF VersionsNext

(* Before the first indexing nothing is old. *)
LEMMA IndexedStart == VersionsInit => Indexed
BY DEF VersionsInit, EmptyStores, Indexed, OldHasNewer, InTurn, OneByOne

-----------------------------------------------------------------------------
(* What is there stays there. *)

(* Documents are not dropped. *)
LEMMA CreatedGrows ==
    ASSUME VersionInv, [VersionsNext]_storeVars
    PROVE  Created \subseteq Created'
<1>1. ASSUME NEW d \in Document, NEW p \in Document, CreateVersion(d, p)
      PROVE  \A e \in Created : e \in Created'
  <2>1. version' = [version EXCEPT ![d] = version[p] + 1] /\ version[d] = 0
    BY <1>1 DEF CreateVersion
  <2>2. QED
    BY <2>1 DEF VersionInv, StoreTypes, Created
<1>2. CASE version' = version
  BY <1>2 DEF Created
<1>3. ASSUME NEW d \in Document, Indexer(d) \/ Admin(d)
      PROVE  version' = version
  BY <1>3 DEF Indexer, IndexRows, Upsert, SelectOlder, UpdateRows, IndexFails, FlagPoints, Admin, SoftDelete,
     Restore, Flip, postgres
<1>4. ASSUME Loop \/ UNCHANGED storeVars
      PROVE  version' = version
  BY <1>4 DEF Loop, TickDeleted, TickRestored, TickSends, TickEnds, postgres, storeVars
<1>5. \/ \E d \in Document, p \in Document : CreateVersion(d, p)
      \/ version' = version
  BY <1>3, <1>4 DEF VersionsNext
<1>6. QED
  BY <1>1, <1>2, <1>5

(* Failures are counted. *)
LEMMA FaultsCounted == faults \in Nat /\ [VersionsNext]_storeVars => faults' \in Nat
<1> SUFFICES ASSUME faults \in Nat, [VersionsNext]_storeVars
             PROVE  faults' \in Nat
  OBVIOUS
<1>1. faults' \in {faults, faults + 1}
  BY DEF VersionsNext, CreateVersion, Indexer, IndexRows, Upsert, SelectOlder, UpdateRows, IndexFails, FlagPoints,
     Admin, SoftDelete, Restore, Flip, Loop, TickDeleted, TickRestored, TickSends, TickEnds, Fails, storeVars, bounds
<1>2. QED
  BY <1>1

(* What can be found is found after every step that loses, deletes or rewrites
   nothing: when an update takes the flag of a version, the version that takes
   it can be found. *)
LEMMA FindableStays ==
    ASSUME VersionInv, Indexed, ~disorder, faults \in Nat, [VersionsNext]_storeVars, faults' = faults,
           \A d \in Document : ~Rewrites(d), NEW w \in Document, Findable(w)
    PROVE  \E e \in Document : Findable(e)'
<1>1. /\ OneByOne
      /\ \A d \in Document :
           /\ pc[d] # "idle" => rows[d] = "latest"
           /\ pc[d] \in {"select", "update", "flag"} => points[d].latest
           /\ pc[d] = "flag" => \A e \in todo[d] : rows[e] # "latest"
  BY DEF Indexed, InTurn
<1>2. points[w].latest /\ rows[w] = "latest" /\ pc[w] # "upsert"
  BY DEF Findable
<1>3. ASSUME points'[w].latest, rows'[w] = "latest", pc'[w] # "upsert"
      PROVE  \E e \in Document : Findable(e)'
  BY <1>3 DEF Findable
<1>4. ASSUME NEW d \in Document, IndexRows(d)
      PROVE  \E e \in Document : Findable(e)'
  <2>1. /\ pc[d] = "idle" /\ pc' = [pc EXCEPT ![d] = "upsert"]
        /\ rows' = [rows EXCEPT ![d] = "latest"] \/ rows' = rows
        /\ points' = [points EXCEPT ![d] = NoPoints] \/ points' = points
    BY <1>4 DEF IndexRows, Goto
  <2>2. w # d
    BY <1>2, <2>1 DEF Rewrites, VersionInv, StoreTypes
  <2>3. points'[w] = points[w] /\ rows'[w] = rows[w] /\ pc'[w] = pc[w]
    BY <2>1, <2>2 DEF VersionInv, StoreTypes
  <2>4. QED
    BY <1>2, <1>3, <2>3
<1>5. ASSUME NEW d \in Document, Upsert(d)
      PROVE  \E e \in Document : Findable(e)'
  <2>1. /\ pc[d] = "upsert" /\ rows' = rows
        /\ points' = [points EXCEPT ![d] = [there |-> TRUE, latest |-> TRUE, deleted |-> FALSE]]
        /\ pc' = [pc EXCEPT ![d] = IF version[d] > 1 THEN "select" ELSE "idle"]
    BY <1>5 DEF Upsert, Goto, postgres
  <2>2. w # d
    BY <1>2, <2>1
  <2>3. points'[w] = points[w] /\ rows'[w] = rows[w] /\ pc'[w] = pc[w]
    BY <2>1, <2>2 DEF VersionInv, StoreTypes
  <2>4. QED
    BY <1>2, <1>3, <2>3
<1>6. ASSUME NEW d \in Document, SelectOlder(d)
      PROVE  \E e \in Document : Findable(e)'
  <2>1. /\ UNCHANGED <<rows, points>>
        /\ pc' = [pc EXCEPT ![d] = IF todo'[d] = {} THEN "idle" ELSE "update"]
    BY <1>6 DEF SelectOlder, Goto, postgres
  <2>2. pc'[w] # "upsert"
    BY <1>2, <2>1 DEF VersionInv, StoreTypes
  <2>3. QED
    BY <1>2, <1>3, <2>1, <2>2
<1>7. ASSUME NEW d \in Document, UpdateRows(d)
      PROVE  \E e \in Document : Findable(e)'
  <2>1. /\ pc[d] = "update" /\ points' = points
        /\ rows' = [e \in Document |-> IF e \in todo[d] /\ rows[e] = "latest" THEN "old" ELSE rows[e]]
        /\ pc' = [pc EXCEPT ![d] = "flag"]
    BY <1>7 DEF UpdateRows, Goto
  <2>2. d \notin todo[d]
    BY <2>1 DEF VersionInv, StoreTypes, OlderOnly, Older
  <2>3. points'[d].latest /\ rows'[d] = "latest" /\ pc'[d] # "upsert"
    BY <1>1, <2>1, <2>2 DEF VersionInv, StoreTypes
  <2>4. QED
    BY <2>3 DEF Findable
<1>8. ASSUME NEW d \in Document, NEW x \in Document, FlagPoints(d, x)
      PROVE  \E e \in Document : Findable(e)'
  <2>1. /\ pc[d] = "flag" /\ x \in todo[d] /\ rows' = rows
        /\ points' = [points EXCEPT ![x] = WithLatest(@, FALSE)] \/ points' = points
        /\ pc' = [pc EXCEPT ![d] = IF todo'[d] = {} THEN "idle" ELSE "flag"]
    BY <1>8 DEF FlagPoints, Goto, postgres
  <2>2. w # x
    BY <1>1, <1>2, <2>1
  <2>3. points'[w] = points[w] /\ pc'[w] # "upsert"
    BY <1>2, <2>1, <2>2 DEF VersionInv, StoreTypes
  <2>4. QED
    BY <1>2, <1>3, <2>1, <2>3
<1>9. ASSUME NEW d \in Document, IndexFails(d)
      PROVE  FALSE
  BY <1>9 DEF IndexFails, Fails
<1>10. ASSUME NEW d \in Document, NEW p \in Document, CreateVersion(d, p)
       PROVE  \E e \in Document : Findable(e)'
  BY <1>2, <1>3, <1>10 DEF CreateVersion, indexer
<1>11. ASSUME \/ \E d \in Document : Admin(d)
              \/ Loop
              \/ UNCHANGED storeVars
       PROVE  \E e \in Document : Findable(e)'
  BY <1>2, <1>3, <1>11, OnlyDeleted
<1>12. QED
  BY <1>4, <1>5, <1>6, <1>7, <1>8, <1>9, <1>10, <1>11 DEF VersionsNext, Indexer

-----------------------------------------------------------------------------
(* What is read. *)

(* The documents of a set, in the order of a query. *)
InOrderOf(there, T) ==
    /\ Len(there) \in Nat /\ DOMAIN there = 1..Len(there)
    /\ \A i \in DOMAIN there : there[i] \in T
    /\ \A i, j \in DOMAIN there : there[i] = there[j] => i = j
    /\ \A d \in T : \E i \in DOMAIN there : there[i] = d

(* The documents that are kept of those there are. *)
LEMMA KeptDocuments ==
    ASSUME NEW T, T \subseteq Created, NEW where, where = {i \in DOMAIN CreatedSeq : CreatedSeq[i] \in T}
    PROVE  InOrderOf(Picked(CreatedSeq, where), T)
<1> DEFINE s == CreatedSeq
           t == Picked(s, where)
           N == Cardinality(where)
<1>1. IsFiniteSet(Created)
  BY VersionAssumption, FS_Subset DEF Created
<1>2. /\ Cardinality(Created) \in Nat /\ DOMAIN s = 1..Cardinality(Created)
      /\ \A i, j \in DOMAIN s : s[i] = s[j] => i = j
      /\ \A x \in Created : \E i \in DOMAIN s : s[i] = x
  BY <1>1, SeqOfSet DEF CreatedSeq
<1>3. IsFiniteSet(where) /\ where \subseteq Nat
  <2>1. IsFiniteSet(DOMAIN s) /\ where \subseteq DOMAIN s
    BY <1>2, FS_Interval
  <2> HIDE DEF s
  <2>2. QED
    BY <1>2, <2>1, FS_Subset
<1> HIDE DEF s
<1>4. N \in Nat /\ t = [n \in 1..N |-> t[n]] /\ \E f : PickedBy(f, s, where)
  BY <1>3, PickedFrom
<1>5. PICK f : PickedBy(f, s, where)
  BY <1>4
<1>6. /\ \A n \in 1..N : f[n] \in where /\ t[n] = s[f[n]]
      /\ \A n, m \in 1..N : f[n] = f[m] => n = m
      /\ \A i \in where : \E n \in 1..N : f[n] = i
  BY <1>5 DEF PickedBy
<1>7. \A i \in where : i \in DOMAIN s /\ s[i] \in T
  BY DEF s
<1>8. \A d \in T : \E i \in where : s[i] = d
  BY <1>2 DEF s
<1> HIDE DEF t, N
<1>9. Len(t) = N /\ DOMAIN t = 1..N
  BY <1>4, FromFunction
<1>10. \A n, m \in 1..N : t[n] = t[m] => n = m
  BY <1>2, <1>6, <1>7
<1>11. \A d \in T : \E n \in 1..N : t[n] = d
  BY <1>6, <1>8
<1>12. InOrderOf(t, T)
  BY <1>4, <1>6, <1>7, <1>9, <1>10, <1>11 DEF InOrderOf
<1>13. QED
  BY <1>12 DEF t, s

(* One chunk of each of them, with a number and a place. *)
EachOne(a, there, number, k, D) ==
    /\ a = [i \in DOMAIN there |-> a[i]]
    /\ \A i \in DOMAIN there : Chunk(a[i], D) /\ a[i].id = Id(there[i], number[there[i]], k)

(* They are chunks. *)
LEMMA ChunkOfEach ==
    ASSUME NEW T, NEW D, NEW there, InOrderOf(there, T), NEW number, NEW k,
           NEW a, EachOne(a, there, number, k, D)
    PROVE  Chunks(a, D) /\ DOMAIN a = DOMAIN there
<1>1. Len(there) \in Nat /\ DOMAIN there = 1..Len(there)
  BY DEF InOrderOf
<1>2. a = [i \in 1..Len(there) |-> a[i]]
  BY <1>1 DEF EachOne
<1>3. a \in Seq({a[i] : i \in DOMAIN a}) /\ DOMAIN a = 1..Len(there)
  BY <1>1, <1>2, FromFunction
<1>4. \A i, j \in DOMAIN a : a[i].id = a[j].id => i = j
  BY <1>1, <1>3 DEF Id, InOrderOf, EachOne
<1>5. QED
  BY <1>1, <1>3, <1>4 DEF Chunks, EachOne

(* Both chunks of each of them are. *)
LEMMA ChunksOfEach ==
    ASSUME NEW T, NEW D, NEW there, InOrderOf(there, T), NEW number,
           NEW a, EachOne(a, there, number, 1, D), NEW b, EachOne(b, there, number, 2, D)
    PROVE  /\ Chunks(a, D) /\ DOMAIN a = DOMAIN there /\ Chunks(b, D)
           /\ \A i \in DOMAIN a : \A j \in DOMAIN b : a[i].id # b[j].id
<1>1. Chunks(a, D) /\ DOMAIN a = DOMAIN there
  BY ChunkOfEach
<1>2. Chunks(b, D) /\ DOMAIN b = DOMAIN there
  BY ChunkOfEach
<1>3. \A i \in DOMAIN a : \A j \in DOMAIN b : a[i].id # b[j].id
  BY <1>1, <1>2 DEF Id, EachOne
<1>4. QED
  BY <1>1, <1>2, <1>3

(* The points of a query are chunks of documents that exist, a latest one among
   them when a version can be found. *)
LEMMA PointsMet ==
    ASSUME VersionInv
    PROVE  /\ Chunks(Points, Created)
           /\ (\E d \in Document : Findable(d)) => \E i \in DOMAIN Points : Points[i].latest
<1> DEFINE T == {d \in Created : points[d].there}
           where == {i \in DOMAIN CreatedSeq : points[CreatedSeq[i]].there}
           there == Picked(CreatedSeq, where)
           P(d, k) == [id |-> Id(d, sent[d], k), doc |-> d, score |-> 3 - k, ctx |-> Unmarked,
                       latest |-> points[d].latest]
           a == [i \in DOMAIN there |-> P(there[i], 1)]
           b == [i \in DOMAIN there |-> P(there[i], 2)]
<1>1. Points = a \o b
  BY DEF Points, Keep
<1>2. where = {i \in DOMAIN CreatedSeq : CreatedSeq[i] \in T}
  <2>1. IsFiniteSet(Created)
    BY VersionAssumption, FS_Subset DEF Created
  <2>2. \A i \in DOMAIN CreatedSeq : CreatedSeq[i] \in Created
    BY <2>1, SeqOfSet DEF CreatedSeq
  <2>3. QED
    BY <2>2
<1>3. T \subseteq Created
  OBVIOUS
<1> HIDE DEF where, T
<1>4. InOrderOf(there, T)
  BY <1>2, <1>3, KeptDocuments
<1> HIDE DEF there
<1>5. \A i \in DOMAIN there : there[i] \in Created
  BY <1>3, <1>4 DEF InOrderOf
<1>6. \A i \in DOMAIN there : /\ Chunk(a[i], Created) /\ a[i].id = Id(there[i], sent[there[i]], 1)
                             /\ Chunk(b[i], Created) /\ b[i].id = Id(there[i], sent[there[i]], 2)
                             /\ a[i].latest = points[there[i]].latest
  BY <1>5 DEF Chunk
<1>7. a = [i \in DOMAIN there |-> a[i]] /\ b = [i \in DOMAIN there |-> b[i]]
  OBVIOUS
<1> HIDE DEF a, b
<1>8. EachOne(a, there, sent, 1, Created) /\ EachOne(b, there, sent, 2, Created)
  BY <1>6, <1>7 DEF EachOne
<1>9. /\ Chunks(a, Created) /\ DOMAIN a = DOMAIN there /\ Chunks(b, Created)
       /\ Joined(Points, a, b)
  BY <1>1, <1>4, <1>8, ChunksOfEach DEF Joined
<1>10. Chunks(Points, Created) /\ \A i \in DOMAIN there : i \in DOMAIN Points /\ Points[i] = a[i]
  BY <1>9, ConcatChunks
<1>11. ASSUME NEW d \in Document, Findable(d)
      PROVE  \E i \in DOMAIN Points : Points[i].latest
  <2>1. d \in T /\ points[d].latest
    BY <1>11 DEF T, Findable, VersionInv, RowsFirst
  <2>2. PICK i \in DOMAIN there : there[i] = d
    BY <1>4, <2>1 DEF InOrderOf
  <2>3. QED
    BY <1>6, <1>10, <2>1, <2>2
<1>12. QED
  BY <1>10, <1>11

(* So are the rows, one that can be searched among them. *)
LEMMA RowsMet ==
    ASSUME VersionInv, NEW born
    PROVE  /\ Chunks(Rows(born), Created)
           /\ (\E d \in Document : Findable(d)) => \E i \in DOMAIN Rows(born) : Searchable(Rows(born)[i])
<1> DEFINE T == {d \in Created : rows[d] # "none"}
           where == {i \in DOMAIN CreatedSeq : rows[CreatedSeq[i]] # "none"}
           there == Picked(CreatedSeq, where)
           R(d, k) == [id |-> Id(d, written[d], k), doc |-> d, score |-> 3 - k, ctx |-> Context(k),
                       latest |-> rows[d] = "latest", section |-> "body",
                       status |-> IF pc[d] = "upsert" \/ ~points[d].there THEN born ELSE "indexed"]
           a == [i \in DOMAIN there |-> R(there[i], 1)]
           b == [i \in DOMAIN there |-> R(there[i], 2)]
           r == Rows(born)
<1>1. r = a \o b
  BY DEF Rows, Keep
<1>2. where = {i \in DOMAIN CreatedSeq : CreatedSeq[i] \in T}
  <2>1. IsFiniteSet(Created)
    BY VersionAssumption, FS_Subset DEF Created
  <2>2. \A i \in DOMAIN CreatedSeq : CreatedSeq[i] \in Created
    BY <2>1, SeqOfSet DEF CreatedSeq
  <2>3. QED
    BY <2>2
<1>3. T \subseteq Created
  OBVIOUS
<1> HIDE DEF where, T, r
<1>4. InOrderOf(there, T)
  BY <1>2, <1>3, KeptDocuments
<1> HIDE DEF there
<1>5. \A i \in DOMAIN there : there[i] \in Created
  BY <1>3, <1>4 DEF InOrderOf
<1>6. \A i \in DOMAIN there : /\ Chunk(a[i], Created) /\ a[i].id = Id(there[i], written[there[i]], 1)
                             /\ Chunk(b[i], Created) /\ b[i].id = Id(there[i], written[there[i]], 2)
  BY <1>5 DEF Chunk
<1>7. \A i \in DOMAIN there : Findable(there[i]) => Searchable(a[i])
  <2>1. \A i \in DOMAIN there : Findable(there[i]) => points[there[i]].there
    BY <1>5 DEF Findable, VersionInv, RowsFirst, Created
  <2>2. QED
    BY <2>1, RequestAssumption DEF Findable, Searchable
<1>8. a = [i \in DOMAIN there |-> a[i]] /\ b = [i \in DOMAIN there |-> b[i]]
  OBVIOUS
<1> HIDE DEF a, b
<1>9. EachOne(a, there, written, 1, Created) /\ EachOne(b, there, written, 2, Created)
  BY <1>6, <1>8 DEF EachOne
<1>10. /\ Chunks(a, Created) /\ DOMAIN a = DOMAIN there /\ Chunks(b, Created)
       /\ Joined(r, a, b)
  BY <1>1, <1>4, <1>9, ChunksOfEach DEF Joined
<1>11. Chunks(r, Created) /\ \A i \in DOMAIN there : i \in DOMAIN r /\ r[i] = a[i]
  BY <1>10, ConcatChunks
<1>12. ASSUME NEW d \in Document, Findable(d)
       PROVE  \E i \in DOMAIN r : Searchable(r[i])
  <2>1. d \in T
    BY <1>12 DEF T, Findable, VersionInv, RowsFirst
  <2>2. PICK i \in DOMAIN there : there[i] = d
    BY <1>4, <2>1 DEF InOrderOf
  <2>3. QED
    BY <1>7, <1>11, <1>12, <2>2
<1>13. QED
  BY <1>11, <1>12 DEF r

(* What a search answers of what it has read. *)
LEMMA Answered ==
    ASSUME VersionInv, ReadInv, reading = "fetch", NEW order \in {<<>>, SetToSeq(Met)}
    PROVE  LET a == Computed(order, DocRows)
           IN /\ AnswerOf(a, request, Created)
              /\ steady /\ Unfiltered(request) => a.results # <<>>
<1> DEFINE a == Computed(order, DocRows)
           n == CandidateCount(request.limit, request.rerank, request.filtered)
           k == CandidateCount(request.limit, FALSE, request.filtered)
           v == VectorSearch(vector, n, 0)
           b == BM25Search(bm25, n)
           c == BM25Search(bm25, k)
           m == Merge(v, b)
           F == Unfiltered(request) /\ Created \subseteq FetchDocuments(Created, DocRows)
<1>1. /\ request.tool \in {"search", "search_semantic", "search_keyword"}
      /\ request.limit \in Nat \ {0} /\ request.max \in Nat \ {0}
  BY RequestAssumption DEF ReadInv, Retrieved
<1>2. n \in Nat \ {0} /\ k \in Nat \ {0}
  BY <1>1, Candidates
<1>3. /\ UsesPoints => Chunks(vector, Created) /\ (steady => \E i \in DOMAIN vector : vector[i].latest)
      /\ UsesRows => Chunks(bm25, Created) /\ (steady => \E i \in DOMAIN bm25 : Searchable(bm25[i]))
  BY DEF ReadInv, Retrieved
<1>4. steady => Created \subseteq FetchDocuments(Created, DocRows)
  <2>1. ASSUME steady PROVE Deleted = {}
    BY <2>1 DEF ReadInv, SomethingThere, Deleted, ToSet
  <2>2. QED
    BY <2>1 DEF FetchDocuments, DocRows
<1> HIDE DEF n, k
<1>5. UsesPoints => /\ Chunks(v, Created) /\ IdsOf(v) \subseteq IdsOf(vector)
                    /\ IsFiniteSet(IdsOf(vector)) /\ (steady => v # <<>>)
  BY <1>2, <1>3, VectorFound, IdsFinite
<1>6. UsesRows => /\ Chunks(b, Created) /\ IdsOf(b) \subseteq IdsOf(bm25)
                  /\ IsFiniteSet(IdsOf(bm25)) /\ (steady => b # <<>>)
  BY <1>2, <1>3, RowsFound, IdsFinite
<1>7. UsesRows => /\ Chunks(c, Created) /\ IdsOf(c) \subseteq IdsOf(bm25)
                  /\ IsFiniteSet(IdsOf(bm25)) /\ (steady => c # <<>>)
  BY <1>2, <1>3, RowsFound, IdsFinite
<1> HIDE DEF v, b, c
<1>8. CASE request.tool = "search"
  <2>1. a = Ranked(m, request, stored, order, DocRows)
    BY <1>8 DEF Computed, HybridSearch, n, v, b
  <2>2. UsesPoints /\ UsesRows /\ Met = IdsOf(vector) \cup IdsOf(bm25)
    BY <1>8 DEF UsesPoints, UsesRows, Met
  <2>3. Chunks(m, Created) /\ IdsOf(m) \subseteq IdsOf(v) \cup IdsOf(b) /\ (v # <<>> \/ b # <<>> => m # <<>>)
    BY <1>5, <1>6, <2>2, Merged
  <2>4. IsFiniteSet(Met) /\ IdsOf(m) \subseteq Met
    <3>1. IsFiniteSet(IdsOf(vector) \cup IdsOf(bm25))
      BY <1>5, <1>6, <2>2, FS_Union
    <3>2. QED
      BY <1>5, <1>6, <2>2, <2>3, <3>1
  <2> HIDE DEF m, a
  <2>5. AnswerOf(a, request, Created) /\ (F /\ m # <<>> => a.results # <<>>)
    BY <1>1, <2>1, <2>3, <2>4, RankedAnswer
  <2>6. QED
    BY <1>4, <1>5, <2>2, <2>3, <2>5 DEF a
<1>9. CASE request.tool = "search_semantic"
  <2>1. a = Ranked(v, request, stored, order, DocRows)
    BY <1>9 DEF Computed, SemanticSearch, n, v
  <2>2. UsesPoints /\ Met = IdsOf(vector)
    BY <1>9 DEF UsesPoints, UsesRows, Met
  <2> HIDE DEF a
  <2>3. AnswerOf(a, request, Created) /\ (F /\ v # <<>> => a.results # <<>>)
    BY <1>1, <1>5, <2>1, <2>2, RankedAnswer
  <2>4. QED
    BY <1>4, <1>5, <2>2, <2>3 DEF a
<1>10. CASE request.tool = "search_keyword"
  <2>1. a = Ranked(c, request, stored, <<>>, DocRows)
    BY <1>10 DEF Computed, KeywordSearch, k, c
  <2>2. UsesRows
    BY <1>10 DEF UsesRows
  <2> HIDE DEF a
  <2>3. AnswerOf(a, request, Created) /\ (F /\ c # <<>> => a.results # <<>>)
    BY <1>1, <1>7, <2>1, <2>2, RankedAnswer
  <2>4. QED
    BY <1>4, <1>7, <2>2, <2>3 DEF a
<1>11. QED
  BY <1>1, <1>8, <1>9, <1>10 DEF a

-----------------------------------------------------------------------------
(* The steps of a search. *)

(* The first state of a reader. *)
LEMMA ReadStart == ReadersInit => ReadInv
<1> SUFFICES ASSUME ReadersInit
             PROVE  ReadInv
  OBVIOUS
<1>1. faults \in Nat
  BY ReadersStart, VersionAssumption DEF VersionsInit
<1>2. DOMAIN pages = 0..MaxOffset /\ reading \in {"idle", "none"} /\ steady = FALSE
  BY DEF ReadersInit, Apart, NoPages
<1>3. QED
  BY <1>1, <1>2 DEF ReadersInit, Apart, ReadInv, SomethingThere, Retrieved, Walked

(* A request begins. *)
LEMMA AskKeeps == ASSUME VersionInv, ReadInv, NEW q \in Requests, Ask(q) PROVE ReadInv'
<1>1. /\ reading = "idle" /\ request' = q /\ reading' = "retrieve"
      /\ steady' = (tombs = <<>> /\ ~disorder /\ \E d \in Document : Findable(d))
      /\ UNCHANGED <<storeVars, vector, bm25, paging, pages>>
  BY DEF Ask
<1>2. vector = None /\ bm25 = None /\ paging = None /\ pages = NoPages
  BY <1>1 DEF ReadInv, Retrieved, Walked
<1>3. UNCHANGED <<faults, tombs, disorder, points, rows, pc>>
  BY <1>1 DEF storeVars, postgres, indexer, bounds, history
<1>4. SomethingThere'
  BY <1>1, <1>3 DEF SomethingThere, Findable
<1>5. Retrieved'
  BY <1>1, <1>2 DEF Retrieved
<1>6. Walked'
  BY <1>1, <1>2 DEF Walked, NoPages
<1>7. QED
  BY <1>3, <1>4, <1>5, <1>6 DEF ReadInv

(* What a reader's step leaves alone. *)
LEMMA SameStores ==
    ASSUME UNCHANGED storeVars
    PROVE  Created' = Created /\ faults' = faults /\ tombs' = tombs /\ disorder' = disorder
           /\ \A d \in Document : Findable(d)' = Findable(d)
BY DEF storeVars, postgres, indexer, bounds, history, Created, Findable

(* The points are read. *)
LEMMA ReadPointsKeeps == ASSUME VersionInv, ReadInv, ReadPoints PROVE ReadInv'
<1>1. /\ reading = "retrieve" /\ vector' = Points
      /\ UNCHANGED <<storeVars, request, reading, bm25, paging, pages, steady>>
  BY DEF ReadPoints
<1>2. /\ Created' = Created /\ faults' = faults /\ tombs' = tombs /\ disorder' = disorder
      /\ \A d \in Document : Findable(d)' = Findable(d)
  BY <1>1, SameStores
<1>3. SomethingThere'
  BY <1>1, <1>2 DEF ReadInv, SomethingThere
<1>4. /\ Chunks(Points, Created)
      /\ steady => \E i \in DOMAIN Points : Points[i].latest
  BY <1>1, PointsMet DEF ReadInv, SomethingThere
<1>5. Retrieved'
  BY <1>1, <1>2, <1>4 DEF ReadInv, Retrieved
<1>6. Walked'
  BY <1>1 DEF ReadInv, Walked
<1>7. QED
  BY <1>2, <1>3, <1>5, <1>6 DEF ReadInv

(* The rows are read. *)
LEMMA ReadRowsKeeps == ASSUME VersionInv, ReadInv, ReadRows PROVE ReadInv'
<1>1. PICK born \in {"indexed", "pending_embed"} : bm25' = Rows(born)
  BY DEF ReadRows
<1>2. /\ reading = "retrieve"
      /\ UNCHANGED <<storeVars, request, reading, vector, paging, pages, steady>>
  BY DEF ReadRows
<1>3. /\ Created' = Created /\ faults' = faults /\ tombs' = tombs /\ disorder' = disorder
      /\ \A d \in Document : Findable(d)' = Findable(d)
  BY <1>2, SameStores
<1>4. SomethingThere'
  BY <1>2, <1>3 DEF ReadInv, SomethingThere
<1>5. /\ Chunks(bm25', Created)
      /\ steady => \E i \in DOMAIN bm25' : Searchable(bm25'[i])
  BY <1>1, <1>2, RowsMet DEF ReadInv, SomethingThere
<1>6. Retrieved'
  BY <1>2, <1>3, <1>5 DEF ReadInv, Retrieved
<1>7. Walked'
  BY <1>2 DEF ReadInv, Walked
<1>8. QED
  BY <1>3, <1>4, <1>6, <1>7 DEF ReadInv

(* The contexts are read, when the retrievals have answered. *)
LEMMA ReadContextsKeeps == ASSUME VersionInv, ReadInv, ReadContexts PROVE ReadInv'
<1>1. /\ reading = "retrieve" /\ reading' = "fetch"
      /\ UsesPoints => vector # None
      /\ UsesRows => bm25 # None
      /\ UNCHANGED <<storeVars, request, vector, bm25, paging, pages, steady>>
  BY DEF ReadContexts
<1>2. /\ Created' = Created /\ faults' = faults /\ tombs' = tombs /\ disorder' = disorder
      /\ \A d \in Document : Findable(d)' = Findable(d)
  BY <1>1, SameStores
<1>3. SomethingThere'
  BY <1>1, <1>2 DEF ReadInv, SomethingThere
<1>4. Retrieved'
  BY <1>1, <1>2 DEF ReadInv, Retrieved, UsesPoints, UsesRows
<1>5. Walked'
  BY <1>1 DEF ReadInv, Walked
<1>6. QED
  BY <1>2, <1>3, <1>4, <1>5 DEF ReadInv

(* The documents are read, and the search answers. *)
LEMMA FetchKeeps == ASSUME VersionInv, ReadInv, Fetch PROVE ReadInv'
<1>1. PICK order \in {<<>>, SetToSeq(Met)} : answer' = Computed(order, DocRows)
  BY DEF Fetch
<1>2. /\ reading = "fetch" /\ reading' = "answered" /\ vector' = None /\ bm25' = None
      /\ pool' = [pool |-> answer'.pool, by |-> request.by, max |-> request.max] \/ pool' = None
      /\ UNCHANGED <<storeVars, request, paging, pages, steady>>
  BY DEF Fetch
<1>3. /\ Created' = Created /\ faults' = faults /\ tombs' = tombs /\ disorder' = disorder
      /\ \A d \in Document : Findable(d)' = Findable(d)
  BY <1>2, SameStores
<1>4. SomethingThere'
  BY <1>2, <1>3 DEF ReadInv, SomethingThere
<1>5. Retrieved'
  BY <1>2, <1>3 DEF ReadInv, Retrieved
<1>6. /\ AnswerOf(answer', request, Created)
      /\ steady /\ Unfiltered(request) => answer'.results # <<>>
  BY <1>1, <1>2, Answered
<1>7. paging = None /\ pages = NoPages
  BY <1>2 DEF ReadInv, Walked
<1>8. DOMAIN pages = 0..MaxOffset /\ \A o \in DOMAIN pages : pages[o] = None
  BY <1>7 DEF NoPages
<1>9. Walked'
  BY <1>2, <1>3, <1>6, <1>7, <1>8 DEF Walked
<1>10. QED
  BY <1>3, <1>4, <1>5, <1>9 DEF ReadInv

(* A page is asked for. *)
LEMMA LoadPageKeeps ==
    ASSUME VersionInv, ReadInv, NEW offset \in 0..MaxOffset, LoadPage(offset)
    PROVE  ReadInv'
<1>1. /\ reading = "answered" /\ pool # None /\ paging' = offset /\ offset < answer.total
      /\ UNCHANGED <<storeVars, request, reading, vector, bm25, answer, pool, pages, steady>>
  BY DEF LoadPage
<1>2. /\ Created' = Created /\ faults' = faults /\ tombs' = tombs /\ disorder' = disorder
      /\ \A d \in Document : Findable(d)' = Findable(d)
  BY <1>1, SameStores
<1>3. SomethingThere' /\ Retrieved'
  BY <1>1, <1>2 DEF ReadInv, SomethingThere, Retrieved, UsesPoints, UsesRows
<1>4. Walked'
  BY <1>1, <1>2 DEF ReadInv, Walked, OnPage, Spread
<1>5. QED
  BY <1>2, <1>3, <1>4 DEF ReadInv

(* A page is cut from the pool: its chunks have the places behind its offset. *)
LEMMA FetchPageKeeps == ASSUME VersionInv, ReadInv, FetchPage PROVE ReadInv'
<1> DEFINE page == Paginate(pool, paging, request.limit, DocRows)
           r == [ids |-> IdsOf(page.results), total |-> page.total, dead |-> Deleted]
           cut == TopN(SubSeq(Spread, paging + 1, Len(Spread)), request.limit)
           where == {k \in DOMAIN cut : cut[k].doc \in FetchDocuments(DocsOf(cut), DocRows)}
<1>1. /\ paging # None /\ paging' = None
      /\ pages' = [pages EXCEPT ![paging] = r]
      /\ UNCHANGED <<storeVars, request, reading, vector, bm25, answer, pool, steady>>
  BY DEF FetchPage
<1>2. /\ Created' = Created /\ faults' = faults /\ tombs' = tombs /\ disorder' = disorder
      /\ \A d \in Document : Findable(d)' = Findable(d)
  BY <1>1, SameStores
<1>3. SomethingThere' /\ Retrieved'
  BY <1>1, <1>2 DEF ReadInv, SomethingThere, Retrieved, UsesPoints, UsesRows
<1>4. /\ reading = "answered" /\ paging \in 0..MaxOffset /\ paging < answer.total
      /\ pool = [pool |-> answer.pool, by |-> request.by, max |-> request.max]
      /\ AnswerOf(answer, request, Created)
      /\ DOMAIN pages = 0..MaxOffset
  BY <1>1 DEF ReadInv, Walked
<1>5. request.limit \in Nat \ {0} /\ request.max \in Nat \ {0}
  BY <1>4, RequestAssumption DEF ReadInv, Retrieved
<1>6. Chunks(Spread, Created) /\ answer.total = Len(Spread)
  BY <1>4, <1>5, Diversified DEF AnswerOf, Spread
<1>7. paging \in Nat
  BY <1>4, RequestAssumption
<1>8. page.results = Picked(cut, where)
  BY <1>4 DEF Paginate, Keep, Spread
<1> HIDE DEF page
<1>9. /\ Chunks(cut, Created)
      /\ \A k \in DOMAIN cut : paging + k \in DOMAIN Spread /\ k <= request.limit /\ cut[k] = Spread[paging + k]
      /\ \A i \in DOMAIN Spread : paging < i /\ i <= paging + request.limit => i - paging \in DOMAIN cut
  BY <1>4, <1>5, <1>6, <1>7, PageOf
<1> HIDE DEF cut
<1>10. \A k \in DOMAIN cut : k \in where <=> cut[k].doc \notin Deleted
  <2>1. \A k \in DOMAIN cut : cut[k].doc \in Created /\ cut[k].doc \in DocsOf(cut)
    BY <1>9 DEF Chunks, Chunk, DocsOf
  <2>2. QED
    BY <2>1 DEF FetchDocuments, DocRows
<1>11. where \subseteq DOMAIN cut
  OBVIOUS
<1> HIDE DEF where
<1>12. IdsOf(page.results) = {cut[k].id : k \in where}
  <2>1. \A k \in where : cut[k].doc \in Created
    BY <1>9, <1>11 DEF Chunks, Chunk
  <2>2. /\ \A n \in DOMAIN page.results : \E k \in where : page.results[n] = cut[k]
        /\ \A k \in where : \E n \in DOMAIN page.results : page.results[n] = cut[k]
    BY <1>8, <1>9, <1>11, <2>1, PickedChunks
  <2>3. QED
    BY <2>2 DEF IdsOf
<1>13. ASSUME NEW id
       PROVE  id \in r.ids <=>
                \E i \in DOMAIN Spread : /\ paging < i /\ i <= paging + request.limit
                                        /\ Spread[i].id = id /\ Spread[i].doc \notin r.dead
  <2>1. DOMAIN Spread \subseteq Nat /\ DOMAIN cut \subseteq Nat \ {0}
    BY <1>6, <1>9, ChunksAt
  <2>2. ASSUME NEW k \in where, cut[k].id = id
        PROVE  \E i \in DOMAIN Spread : /\ paging < i /\ i <= paging + request.limit
                                       /\ Spread[i].id = id /\ Spread[i].doc \notin r.dead
    <3>1. k \in Nat \ {0} /\ k <= request.limit /\ paging + k \in DOMAIN Spread /\ cut[k] = Spread[paging + k]
          /\ cut[k].doc \notin Deleted
      BY <1>9, <1>10, <1>11, <2>1
    <3>2. paging < paging + k /\ paging + k <= paging + request.limit
      BY <1>5, <1>7, <3>1
    <3>3. QED
      BY <2>2, <3>1, <3>2
  <2>3. ASSUME NEW i \in DOMAIN Spread, paging < i, i <= paging + request.limit,
               Spread[i].id = id, Spread[i].doc \notin Deleted
        PROVE  \E k \in where : cut[k].id = id
    <3>1. i - paging \in DOMAIN cut /\ paging + (i - paging) = i
      BY <1>7, <1>9, <2>1, <2>3
    <3>2. cut[i - paging] = Spread[i]
      BY <1>9, <3>1
    <3>3. QED
      BY <1>10, <2>3, <3>1, <3>2
  <2>4. QED
    BY <1>12, <2>2, <2>3
<1> HIDE DEF r
<1>14. Spread' = Spread
  BY <1>1 DEF Spread
<1>15. /\ DOMAIN pages' = 0..MaxOffset /\ pages'[paging] = r
       /\ \A o \in 0..MaxOffset : o # paging => pages'[o] = pages[o]
  BY <1>1, <1>4
<1>16. ASSUME NEW o \in 0..MaxOffset, pages'[o] # None
       PROVE  OnPage(o)'
  <2>1. CASE o = paging
    BY <1>1, <1>13, <1>14, <1>15, <2>1 DEF OnPage
  <2>2. CASE o # paging
    <3>1. pages'[o] = pages[o] /\ OnPage(o)
      BY <1>4, <1>15, <1>16, <2>2 DEF ReadInv, Walked
    <3>2. QED
      BY <1>1, <1>14, <3>1 DEF OnPage
  <2>3. QED
    BY <2>1, <2>2
<1>17. Walked'
  BY <1>1, <1>2, <1>4, <1>15, <1>16 DEF ReadInv, Walked
<1>18. QED
  BY <1>2, <1>3, <1>17 DEF ReadInv

(* The walk is over. *)
LEMMA ExpireKeeps == ASSUME VersionInv, ReadInv, Expire PROVE ReadInv'
<1>1. /\ reading = "answered" /\ reading' = "none" /\ paging = None /\ pages' = NoPages /\ steady' = FALSE
      /\ UNCHANGED <<storeVars, vector, bm25, paging>>
  BY DEF Expire
<1>2. vector = None /\ bm25 = None
  BY <1>1 DEF ReadInv, Retrieved
<1>3. faults' = faults
  BY <1>1, SameStores
<1>4. QED
  BY <1>1, <1>2, <1>3 DEF ReadInv, SomethingThere, Retrieved, Walked, NoPages

(* The stores change next to a reader. *)
LEMMA BesideKeeps ==
    ASSUME VersionInv, Indexed, ReadInv, [VersionsNext]_storeVars, Beside
    PROVE  ReadInv'
<1>1. /\ UNCHANGED <<request, reading, vector, bm25, stored, answer, pool, paging, pages>>
      /\ steady' = (steady /\ tombs' = <<>> /\ ~disorder' /\ faults' = faults /\ \A d \in Document : ~Rewrites(d))
  BY DEF Beside, reader
<1>2. Created \subseteq Created' /\ faults' \in Nat
  BY CreatedGrows, FaultsCounted DEF ReadInv
<1>3. SomethingThere'
  <2> SUFFICES ASSUME steady'
               PROVE  /\ ~disorder'
                      /\ reading \in {"retrieve", "fetch", "answered"} => tombs' = <<>>
                      /\ reading \in {"retrieve", "fetch"} => \E d \in Document : Findable(d)'
    BY <1>1 DEF SomethingThere
  <2>1. steady /\ tombs' = <<>> /\ ~disorder' /\ faults' = faults /\ \A d \in Document : ~Rewrites(d)
    BY <1>1
  <2>2. ~disorder /\ (reading \in {"retrieve", "fetch"} => \E d \in Document : Findable(d))
    BY <2>1 DEF ReadInv, SomethingThere
  <2>3. QED
    BY <2>1, <2>2, FindableStays DEF ReadInv
<1>4. Retrieved'
  <2>1. steady' => steady
    BY <1>1
  <2>2. vector # None => Chunks(vector, Created')
    BY <1>2, MoreChunks DEF ReadInv, Retrieved
  <2>3. bm25 # None => Chunks(bm25, Created')
    BY <1>2, MoreChunks DEF ReadInv, Retrieved
  <2>4. QED
    BY <1>1, <2>1, <2>2, <2>3 DEF ReadInv, Retrieved, UsesPoints, UsesRows
<1>5. Walked'
  <2>1. steady' => steady
    BY <1>1
  <2>2. AnswerOf(answer, request, Created) => AnswerOf(answer, request, Created')
    BY <1>2, MoreChunks DEF AnswerOf
  <2>3. \A o : OnPage(o)' = OnPage(o)
    BY <1>1 DEF OnPage, Spread
  <2>4. QED
    BY <1>1, <2>1, <2>2, <2>3 DEF ReadInv, Walked
<1>6. QED
  BY <1>2, <1>3, <1>4, <1>5 DEF ReadInv

(* Every step of the readers keeps the invariant. *)
LEMMA ReadersKeep == VersionInv /\ Indexed /\ ReadInv /\ [ReadersNext]_allVars => ReadInv'
<1> SUFFICES ASSUME VersionInv, Indexed, ReadInv, [ReadersNext]_allVars
             PROVE  ReadInv'
  OBVIOUS
<1>1. [VersionsNext]_storeVars
  BY ReadersStep
<1>2. CASE Beside
  BY <1>1, <1>2, BesideKeeps
<1>3. CASE UNCHANGED allVars
  <2>1. UNCHANGED <<storeVars, request, reading, vector, bm25, answer, pool, paging, pages, steady>>
    BY <1>3 DEF allVars, readerVars, reader
  <2>2. /\ Created' = Created /\ faults' = faults /\ tombs' = tombs /\ disorder' = disorder
        /\ \A d \in Document : Findable(d)' = Findable(d)
    BY <2>1, SameStores
  <2>3. SomethingThere' /\ Retrieved'
    BY <2>1, <2>2 DEF ReadInv, SomethingThere, Retrieved, UsesPoints, UsesRows
  <2>4. Walked'
    BY <2>1, <2>2 DEF ReadInv, Walked, OnPage, Spread
  <2>5. QED
    BY <2>2, <2>3, <2>4 DEF ReadInv
<1>4. \/ Beside \/ UNCHANGED allVars
      \/ \E q \in Requests : Ask(q)
      \/ ReadPoints \/ ReadRows \/ ReadContexts \/ Fetch
      \/ \E offset \in 0..MaxOffset : LoadPage(offset)
      \/ FetchPage \/ Expire
  BY DEF ReadersNext, IndexBeside, UpsertBeside, Rest, Reconciling
<1>5. QED
  BY <1>2, <1>3, <1>4, AskKeeps, ReadPointsKeeps, ReadRowsKeeps, ReadContextsKeeps, FetchKeeps, LoadPageKeeps,
     FetchPageKeeps, ExpireKeeps

(* Every state that stores and readers reach satisfies the invariants. *)
LEMMA ReadersInvariant == ReadersSpec => [](VersionInv /\ Indexed /\ ReadInv)
<1>1. ReadersInit => VersionInv /\ Indexed /\ ReadInv
  BY ReadersStart, VersionsStart, IndexedStart, ReadStart
<1>2. VersionInv /\ Indexed /\ ReadInv /\ [ReadersNext]_allVars => (VersionInv /\ Indexed /\ ReadInv)'
  BY ReadersStep, VersionsKeep, IndexedKeeps, ReadersKeep
<1>3. QED
  BY <1>1, <1>2, PTL DEF ReadersSpec

(* The pages of one search fit together: they are cut from the pool of its
   answer, a chunk of a document that was there throughout is on the page of
   its place, and on no other (paginate re-applies diversifyChunks). *)
THEOREM PagesFit == ReadersSpec => []PagesTile
<1>1. ASSUME ReadInv, reading = "answered"
      PROVE  PagesTile
  <2>1. /\ AnswerOf(answer, request, Created) /\ DOMAIN pages = 0..MaxOffset
        /\ \A o \in DOMAIN pages : pages[o] # None => OnPage(o)
    BY <1>1 DEF ReadInv, Walked
  <2>2. request.limit \in Nat \ {0} /\ request.max \in Nat \ {0}
    BY <1>1, RequestAssumption DEF ReadInv, Retrieved
  <2>3. Chunks(Spread, Created) /\ answer.total = Len(Spread)
    BY <2>1, <2>2, Diversified DEF AnswerOf, Spread
  <2>4. Len(Spread) \in Nat /\ DOMAIN Spread = 1..Len(Spread)
    BY <2>3, ChunksAt
  <2>5. ASSUME NEW o \in DOMAIN pages, NEW p \in DOMAIN pages, pages[o] # None, pages[p] # None,
               o + request.limit <= p
        PROVE  pages[o].ids \cap pages[p].ids = {}
    <3> SUFFICES ASSUME NEW id \in pages[o].ids, id \in pages[p].ids
                 PROVE  FALSE
      OBVIOUS
    <3>1. PICK i \in DOMAIN Spread : i <= o + request.limit /\ Spread[i].id = id
      BY <2>1, <2>5 DEF OnPage
    <3>2. PICK j \in DOMAIN Spread : p < j /\ Spread[j].id = id
      BY <2>1, <2>5 DEF OnPage
    <3>3. i = j
      BY <2>3, <3>1, <3>2 DEF Chunks
    <3>4. o \in Nat /\ p \in Nat /\ i \in Nat
      BY <2>1, <2>4, RequestAssumption
    <3>5. QED
      BY <2>2, <2>5, <3>1, <3>2, <3>3, <3>4
  <2>6. ASSUME {o \in 0..(answer.total - 1) : o % request.limit = 0} \subseteq {o \in DOMAIN pages : pages[o] # None},
               NEW i \in DOMAIN Spread,
               Spread[i].doc \notin UNION {pages[o].dead : o \in {p \in DOMAIN pages : pages[p] # None}}
        PROVE  \E o \in {o \in 0..(answer.total - 1) : o % request.limit = 0} : Spread[i].id \in pages[o].ids
    <3>1. i \in Nat /\ i - 1 \in Nat /\ i - 1 <= answer.total - 1
      BY <2>3, <2>4
    <3>2. PICK o \in 0..(i - 1) : i - 1 < o + request.limit /\ o % request.limit = 0
      BY <2>2, <3>1, OffsetOf
    <3>3. o \in {p \in 0..(answer.total - 1) : p % request.limit = 0} /\ o < i /\ i <= o + request.limit
      BY <2>2, <2>3, <2>4, <3>1, <3>2
    <3>4. o \in DOMAIN pages /\ pages[o] # None
      BY <2>6, <3>3
    <3>5. OnPage(o) /\ Spread[i].doc \notin pages[o].dead
      BY <2>1, <2>6, <3>4
    <3>6. Spread[i].id \in pages[o].ids
      BY <3>3, <3>5 DEF OnPage
    <3>7. QED
      BY <3>3, <3>6
  <2>7. QED
    BY <2>5, <2>6 DEF PagesTile, Spread
<1>2. ReadInv => PagesTile
  BY <1>1 DEF PagesTile
<1>3. QED
  BY <1>2, ReadersInvariant, PTL

(* A paper that a search could find when it began is found, although a newer
   version takes its place between the reads (indexer-step.ts upserts before it
   deactivates, search.ts reads the stores one after the other). *)
THEOREM FoundWhileReplaced == ReadersSpec => []FoundThroughout
<1>1. ReadInv => FoundThroughout
  BY DEF ReadInv, Walked, FoundThroughout
<1>2. QED
  BY <1>1, ReadersInvariant, PTL

=============================================================================
