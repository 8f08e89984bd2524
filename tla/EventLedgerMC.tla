---------------------------- MODULE EventLedgerMC ----------------------------
(* A small conversation for TLC: two messages, the first one with a part.  *)
EXTENDS EventLedger, TLC

OfTheFirst == [p \in Part |-> 1]

Interchangeable == Permutations(Reader)

=============================================================================
