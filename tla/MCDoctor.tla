------------------------------ MODULE MCDoctor ------------------------------
(***************************************************************************)
(* The instance of Doctor that TLC explores.                               *)
(***************************************************************************)
EXTENDS Doctor, MCInternalApi

AllChecks == CheckNames

\* Of two chunks the second is in a section under another one.
SecondOfTwo == {c \in Chunk : c % 2 = 0}
=============================================================================
