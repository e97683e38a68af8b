--------------------------- MODULE MCDocPipeline ---------------------------
(***************************************************************************)
(* The instances of DocPipeline that TLC explores: which failures and      *)
(* which outside actors a run lets loose on the document.                  *)
(***************************************************************************)
EXTENDS DocPipeline, MCChunks

AllFaults == FaultKinds

\* Sources stay on disk: parseWorker never has to download one again.
SourcesKept == FaultKinds \ {"source"}

\* No UPDATE of the document is lost: failures from which the code itself
\* recovers, without an operator.
NoLostWrites == FaultKinds \ {"write"}

\* Everybody but the reprocess command changes the tier of the document.
TierActors == {"demand", "force", "enrich"}
=============================================================================
