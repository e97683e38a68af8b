----------------------------- MODULE SingleRun -----------------------------
(***************************************************************************)
(* What the runner promises about its runs, without its flags, its run     *)
(* rows and its stages: one run at a time holds the runner; documents are  *)
(* in flight only while a run holds it, each of them once; and the run     *)
(* lets go only when none is left in flight.                               *)
(***************************************************************************)
CONSTANTS
    Run,    \* runs that may be started
    Doc,    \* documents
    None    \* nobody holds the runner

VARIABLES
    holder,    \* the run that holds the runner
    working    \* the documents in flight

Acquire(r) ==
    /\ holder = None /\ working = {}
    /\ holder' = r
    /\ UNCHANGED working

Begin(d) ==
    /\ holder # None /\ d \notin working
    /\ working' = working \cup {d}
    /\ UNCHANGED holder

End(d) ==
    /\ d \in working
    /\ working' = working \ {d}
    /\ UNCHANGED holder

Release ==
    /\ working = {}
    /\ holder' = None
    /\ UNCHANGED working

Crash == holder' = None /\ working' = {}

Init == holder = None /\ working = {}

Next ==
    \/ \E r \in Run : Acquire(r)
    \/ \E d \in Doc : Begin(d) \/ End(d)
    \/ Release
    \/ Crash

Spec == Init /\ [][Next]_<<holder, working>>
=============================================================================
