------------------------------ MODULE MCReview ------------------------------
(* One document, which a manual and an automatic trigger and the passes of two
   processes meet, or requests for its tier. *)
EXTENDS Review, MCReads

CONSTANTS d1, k, l

OneDoc   == {d1}
MCTriggers == {[id |-> 1, doc |-> d1, by |-> "manual"], [id |-> 2, doc |-> d1, by |-> "auto_on_publish"]}
(* Two requests for the same change with one key, and two for another. *)
MCPatches  == {[id |-> i, doc |-> d1, key |-> k, tier |-> "basic"] : i \in 1..2}
              \cup {[id |-> i, doc |-> d1, key |-> l, tier |-> "full"] : i \in 3..4}

Reviewing == [passes |-> PassKinds, triggers |-> MCTriggers, patches |-> {}]
Retrying  == [passes |-> {}, triggers |-> {}, patches |-> MCPatches]

MCScenarios == {Reviewing, Retrying}
=============================================================================
