---------------------------- MODULE KeyedWorkerMC ----------------------------
(* Instances of KeyedWorker for TLC. *)
EXTENDS KeyedWorker

CONSTANTS i1, i2, i3, k1, k2

\* Two items of one key, the rest of another.
TwoKeys == [i \in Item |-> IF i \in {i1, i2} THEN k1 ELSE k2]

=============================================================================
