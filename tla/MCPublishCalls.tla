--------------------------- MODULE MCPublishCalls ---------------------------
(***************************************************************************)
(* The instances of PublishCalls that TLC explores: two requests of the     *)
(* Portal for one submission and one without a key; or one of the Portal    *)
(* and two calls of an agent that name the same upload.                     *)
(***************************************************************************)
EXTENDS PublishCalls

CONSTANTS r1, r2, r3, u, p1, p2

Requests == {r1, r2, r3}
Pair     == {r1, r2}

Keys  == [r \in Requests |-> IF r \in Pair THEN "a" ELSE NoKey]

\* Without a portal_document_id the id of the document is taken.
OwnIds == [r \in Requests |-> r]

AllFaults == FaultKinds

Uploads == {u}
Puts    == {p1, p2}
ToU     == [p \in Puts |-> u]
FromU   == [r \in Requests |-> u]

ViaCases ==
    {[r \in Requests |-> "portal"],
     [r \in Requests |-> IF r = r2 THEN "portal" ELSE "tool"]}

(* Section 5 of the README says what the others lead to. *)
Harmless == {"price", "refund", "timeout", "stream", "expire"}
=============================================================================
