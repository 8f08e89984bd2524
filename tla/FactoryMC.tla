------------------------------ MODULE FactoryMC ------------------------------
(* Small Factories for TLC.                                                *)
EXTENDS Factory

CONSTANTS e1, e2

OneEpic     == <<e1, e1>>         \* two Issues of one Epic
TwoEpics    == <<e1, e1, e2>>     \* two share a workspace, a third the capacity
Independent == [i \in DOMAIN EpicOf |-> {}]

=============================================================================
