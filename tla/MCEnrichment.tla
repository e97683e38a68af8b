---------------------------- MODULE MCEnrichment ----------------------------
(***************************************************************************)
(* The instance of Enrichment that TLC explores: four documents, three in  *)
(* a batch; the oldest and the newest, which may fail again and again, have *)
(* no DOI.  With it TLC evaluates the methodist channel of v3 (Channel) and *)
(* the counters (Counters), over all short sequences of what may happen to *)
(* them.                                                                   *)
(***************************************************************************)
EXTENDS Enrichment, Integers, Sequences, FiniteSetsExt

WithoutDoi == {1, 4}

-----------------------------------------------------------------------------
(* The channel and the counters. *)

H == INSTANCE Channel
N == INSTANCE Counters WITH Cycle <- {1, 2}

Stage(n) == [name |-> "", number |-> n]
HandIns == [credential : {"ann", "bob"}, stage : {Stage(1), Stage(2), Stage(3), [name |-> "map", number |-> 0]}, note : {"x"}]
           \cup [credential : {"ann"}, stage : {Stage(1)}, note : {"y"}]

(* What was handed in, in this order, with the autonomy at the time. *)
Taken(ins, autonomy) ==
    LET f[k \in 0..Len(ins)] ==
            IF k = 0 THEN [store |-> H!Empty, said |-> <<>>]
            ELSE LET p == f[k-1]
                     r == H!Checkpoint(p.store, p.store, ins[k], autonomy[k])
                 IN  [store |-> r.store, said |-> Append(p.said, r)]
    IN f[Len(ins)]

Autonomies == [1..4 -> {"A0"}] \cup {[k \in 1..4 |-> IF k < 3 THEN "A0" ELSE "A2"]}

(* No stage is recorded before the one before it, and who has handed in a stage
   is never asked for it again. *)
ASSUME StagesInOrder ==
    \A ins \in [1..4 -> HandIns], a \in Autonomies :
        LET t == Taken(ins, a)
            cs == t.store.checkpoints
        IN  /\ \A i \in DOMAIN cs : H!Numbered(cs[i].handin.stage) /\ cs[i].handin.stage.number > 1 =>
                  \E j \in 1..i-1 : cs[j].handin.credential = cs[i].handin.credential
                                    /\ cs[j].handin.stage = Stage(cs[i].handin.stage.number - 1)
            /\ \A k \in 1..4 : t.said[k].answer = "stage_gate" =>
                  \A j \in 1..k-1 : ins[j].credential = ins[k].credential /\ t.said[j].answer # "stage_gate"
                                    => ins[j].stage # Stage(ins[k].stage.number - 1)

(* A hand-in that is repeated gets the answer it got, though the autonomy has
   changed since; there is one record of it. *)
ASSUME RepeatsAlike ==
    \A ins \in [1..4 -> HandIns], a \in Autonomies :
        LET t == Taken(ins, a)
        IN \A j, k \in 1..4 :
              j < k /\ ins[j] = ins[k] /\ t.said[j].answer # "stage_gate" =>
                  /\ t.said[k].answer = "repeat" /\ t.said[k].dose = t.said[j].dose
                  /\ Cardinality({i \in DOMAIN t.store.checkpoints : t.store.checkpoints[i].handin = ins[j]}) = 1

(* Two of the same at once: one record, and while the autonomy stays the same,
   one answer. *)
ASSUME OverlapsAlike ==
    \A h \in HandIns, a, b \in {"A0", "A2"}, before \in [1..2 -> HandIns] :
        LET s == Taken(before, [k \in 1..2 |-> "A0"]).store
            one == H!Checkpoint(s, s, h, a)
            two == H!Checkpoint(s, one.store, h, b)
        IN  /\ two.store = one.store
            /\ one.answer = two.answer
            /\ a = b => one.dose = two.dose

(* To raise an issue again does not lose its resolution, and a resolution comes
   with the next stage that is handed in. *)
ASSUME ResolutionArrives ==
    \A issues \in [1..3 -> {"p", "q"}] :
        LET f[k \in 0..3] == IF k = 0 THEN H!Empty ELSE H!Escalate(f[k-1], "ann", issues[k])
            last   == Len(f[3].tickets)
            solved == [f[3] EXCEPT !.tickets[1].resolution = "old", !.tickets[last].resolution = "done"]
            again  == H!Escalate(solved, "ann", issues[1])
            next   == H!Checkpoint(again, again, [credential |-> "ann", stage |-> Stage(1), note |-> "x"], "A0")
        IN  /\ last = Cardinality({issues[k] : k \in 1..3})
            /\ again = solved
            /\ next.resolution = "done"

-----------------------------------------------------------------------------
Events == {<<"inc", 0>>, <<"expire", 0>>} \cup ({"scan", "read", "write"} \X {1, 2})

After(s, e) ==
    CASE e[1] = "inc"    -> N!Increment(s)
      [] e[1] = "expire" -> N!Expire(s)
      [] e[1] = "scan"   -> N!Scan(s, e[2])
      [] e[1] = "read"   -> N!Read(s, e[2])
      [] e[1] = "write"  -> N!Upsert(s, e[2])

Starts == {N!AtFirst, [N!AtFirst EXCEPT !.counter = 2, !.row = 1]}

History(es, start) ==
    LET f[k \in 0..Len(es)] == IF k = 0 THEN <<start>> ELSE LET p == f[k-1] IN Append(p, After(p[k], es[k]))
    IN f[Len(es)]

Count(es, k) == Cardinality({i \in 1..k : es[i] = <<"inc", 0>>})

(* A row never tells of more calls than there were; while the key lives and
   cycles do not overlap it never goes back; and a cycle that runs undisturbed
   leaves the count of the day. *)
ASSUME RowsFollow ==
    \A es \in [1..5 -> Events], start \in Starts :
        LET h == History(es, start)
            had == IF start.counter = N!Gone THEN 0 ELSE start.counter
            alive == \A i \in 1..5 : es[i][1] # "expire"
            alone == \A i \in 1..5 : es[i][2] # 2
        IN  \A k \in 1..5 :
                /\ h[k + 1].row <= had + Count(es, k)
                /\ alive => h[k + 1].row # 0
                /\ alive /\ alone => h[k].row <= h[k + 1].row
                /\ k > 2 /\ alive /\ es[k] = <<"write", 1>> /\ es[k-1] = <<"read", 1>> /\ es[k-2] = <<"scan", 1>>
                   /\ h[k - 2].counter # N!Gone
                   => h[k + 1].row = had + Count(es, k)

Claims == [type : {"a", "null"}, status : {"s", "null"}, node : {"n", "null"}, modality : {"m"},
           verified : BOOLEAN, attester : {"ann", "bob", "null"}]

(* Every claim is in one bucket of each dimension. *)
ASSUME ClaimsCounted ==
    \A cs \in [1..2 -> Claims] :
        /\ \A d \in N!Dimensions :
              LET bs == N!Bucketed(cs, d)
              IN  /\ MapThenSumSet(LAMBDA b : bs[b].count, DOMAIN bs) = Len(cs)
                  /\ \A b \in DOMAIN bs : bs[b].verified <= bs[b].count

(* Nobody who is left out has attested more than one who is named. *)
ASSUME MostAttested ==
    \A who \in [1..4 -> {"ann", "bob", "null"}] :
        LET cs == [k \in 1..4 |-> [attester |-> who[k]]]
        IN \A a, b \in N!Attesters(cs) :
              N!Attested(cs, a) > N!Attested(cs, b) => b \notin N!TopAttesters(cs, 1)
=============================================================================
