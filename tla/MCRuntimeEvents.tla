-------------------------- MODULE MCRuntimeEvents --------------------------
(* Small instances of RuntimeEvents for TLC.                               *)
EXTENDS RuntimeEvents, TLC

\* Producers are interchangeable (safety only).
ProducerSymmetry == Permutations(Producers)
=============================================================================
