---------------------------- MODULE MCRunnerLock ----------------------------
(* The instances of RunnerLock that TLC explores. *)
EXTENDS RunnerLock

\* Statements may throw, but not the last UPDATE of a run's row.
RowsWritten == FaultKinds \ {"amid", "write"}

\* The operator starts nothing between the check and the claim of a doctor fix:
\* otherwise two runs write (README, Known divergences).
DoctorAlone ==
    \A x \in Doctor, c \in Command \ Doctor :
        pc[x] = "insert" /\ pc[c] = "new" => pc'[c] = "new"

AloneSpec == Init /\ [][Next /\ DoctorAlone]_vars /\ Fairness
=============================================================================
