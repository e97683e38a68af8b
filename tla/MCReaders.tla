----------------------------- MODULE MCReaders -----------------------------
(***************************************************************************)
(* The instance of VersionIndex and Readers that TLC explores: three        *)
(* versions of one paper, of which the later two may be created from any of *)
(* the others.  The stores alone have many indexings, some of both, or many *)
(* requests of an administrator, who deletes and restores more documents    *)
(* than the reconciliation takes; or fewer of each and one search beside.   *)
(***************************************************************************)
EXTENDS Readers, MCTools

CONSTANTS d1, d2, d3

ThreeDocs == {d1, d2, d3}
TwoDocs   == {d1, d2}

Indexed == [indexings |-> 3, admin |-> 1, faults |-> 1, reads |-> FALSE]
Both    == [indexings |-> 2, admin |-> 2, faults |-> 1, reads |-> FALSE]
Many    == [indexings |-> 1, admin |-> 4, faults |-> 1, reads |-> FALSE]
Read    == [indexings |-> 2, admin |-> 1, faults |-> 0, reads |-> TRUE]

MCScenarios == {Indexed, Both, Many, Read}

NoFilter == [types |-> {}, entities |-> {}, categories |-> None, dateFrom |-> 0, dateTo |-> 0, filtered |-> FALSE]

MCRequests ==
    {NoFilter @@ [tool |-> tool, by |-> "keyConcept", max |-> 1, limit |-> 2, rerank |-> FALSE] :
        tool \in {"search_semantic", "search_keyword"}}
    \cup {NoFilter @@ [tool |-> "search", by |-> "document", max |-> 1, limit |-> 1, rerank |-> TRUE]}
=============================================================================
