----------------------------- MODULE Counters -----------------------------
(***************************************************************************)
(* What is counted of the calls: the counters of a day in Redis and the     *)
(* rows that a timer writes from them (cost-counters.ts, cost-rollup.ts,    *)
(* demand-counters.ts, demand-rollup.ts), and the snapshot of the claims    *)
(* (methodist-rollup.ts).                                                   *)
(*                                                                          *)
(* The counter of one key: a number, or Gone when it is not there.  The     *)
(* timer does not wait for a cycle that is still under way.                 *)
(***************************************************************************)
EXTENDS Integers, Sequences, FiniteSets

CONSTANTS Cycle     \* cycles of the timer

Gone == -1

AtFirst ==
    [counter |-> Gone, row |-> Gone,
     at |-> [c \in Cycle |-> "idle"], read |-> [c \in Cycle |-> 0]]

(* HINCRBY makes the key; EXPIRE puts its end off. *)
Increment(s) == [s EXCEPT !.counter = IF @ = Gone THEN 1 ELSE @ + 1]

Expire(s) == [s EXCEPT !.counter = Gone]

(* SCAN finds the key, HGETALL reads its fields - none, when it has expired in
   the meantime - and the row is replaced by what was read. *)
Scan(s, c) == [s EXCEPT !.at[c] = IF s.counter = Gone THEN "idle" ELSE "scanned"]

Read(s, c) ==
    IF s.at[c] # "scanned" THEN s
    ELSE [s EXCEPT !.at[c] = "read", !.read[c] = IF s.counter = Gone THEN 0 ELSE s.counter]

Upsert(s, c) ==
    IF s.at[c] # "read" THEN s ELSE [s EXCEPT !.at[c] = "idle", !.row = s.read[c]]

(* Each key is written on its own: a failure leaves the row as it is. *)
Skip(s, c) == [s EXCEPT !.at[c] = "idle"]

-----------------------------------------------------------------------------
(* The document that a call of get_document or get_chunks asked for: the one
   that was found, or else the one that was named; each a set of at most one
   id, empty when there is no UUID. *)
DemandDocument(found, named) == IF found # {} THEN found ELSE named

-----------------------------------------------------------------------------
(* The snapshot: for each dimension the claims by bucket, and the ten names
   under which most claims were attested. *)

Dimensions == {"type", "status", "modality"}

(* The status of the node counts; when it has none, that of the content. *)
BucketOf(claim, d) ==
    IF d = "status" /\ claim.node # "null" THEN claim.node ELSE claim[d]

Bucketed(claims, d) ==
    [b \in {BucketOf(claims[i], d) : i \in DOMAIN claims} |->
        LET mine == {i \in DOMAIN claims : BucketOf(claims[i], d) = b}
        IN  [count |-> Cardinality(mine), verified |-> Cardinality({i \in mine : claims[i].verified})]]

Attested(claims, who) == Cardinality({i \in DOMAIN claims : claims[i].attester = who})

Attesters(claims) == {claims[i].attester : i \in DOMAIN claims} \ {"null"}

TopAttesters(claims, most) ==
    CHOOSE top \in SUBSET Attesters(claims) :
        /\ Cardinality(top) = (IF Cardinality(Attesters(claims)) < most THEN Cardinality(Attesters(claims)) ELSE most)
        /\ \A a \in top, b \in Attesters(claims) \ top : Attested(claims, a) >= Attested(claims, b)
=============================================================================
