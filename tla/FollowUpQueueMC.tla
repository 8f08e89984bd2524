-------------------------- MODULE FollowUpQueueMC --------------------------
(* Instances of FollowUpQueue for TLC. *)
EXTENDS FollowUpQueue, TLC

CONSTANTS s1, m1, m2

OneSession == [m \in Message |-> s1]

Interchangeable == Permutations(Message)

=============================================================================
