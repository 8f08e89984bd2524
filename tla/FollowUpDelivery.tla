-------------------------- MODULE FollowUpDelivery --------------------------
(***************************************************************************)
(* What the follow-up queue promises for each message, whatever session it *)
(* belongs to and however its drains, restarts and faults interleave:      *)
(*                                                                         *)
(*   - a submitted message stays held until the platform accepted it and a *)
(*     receipt was written, or a client removed it: it is never lost;      *)
(*   - while an acceptance awaits its receipt the message is not sent      *)
(*     again; only an acceptance nobody recorded is repeated.              *)
(*                                                                         *)
(* FollowUpQueue implements this specification.                            *)
(***************************************************************************)
EXTENDS Naturals

CONSTANT Message

VARIABLES
    phase,      \* "new", "held", "sent" or "dropped"
    copies,     \* how often the platform accepted the message
    lost        \* how many of these were never recorded

promise == <<phase, copies, lost>>

Init ==
    /\ phase = [m \in Message |-> "new"]
    /\ copies = [m \in Message |-> 0]
    /\ lost = [m \in Message |-> 0]

Submit(m) ==
    /\ phase[m] = "new"
    /\ phase' = [phase EXCEPT ![m] = "held"]
    /\ UNCHANGED <<copies, lost>>

\* A message dropped while its send is under way may still be accepted.
Accept(m) ==
    /\ phase[m] \in {"held", "dropped"}
    /\ copies[m] = lost[m]
    /\ copies' = [copies EXCEPT ![m] = @ + 1]
    /\ UNCHANGED <<phase, lost>>

AcceptUnheard(m) ==
    /\ phase[m] \in {"held", "dropped"}
    /\ copies[m] = lost[m]
    /\ copies' = [copies EXCEPT ![m] = @ + 1]
    /\ lost' = [lost EXCEPT ![m] = @ + 1]
    /\ UNCHANGED phase

\* Acceptances under way are forgotten: a failed receipt, or a crash.
Forget(S) ==
    /\ \A m \in S : phase[m] \in {"held", "dropped"} /\ copies[m] = lost[m] + 1
    /\ lost' = [m \in Message |-> IF m \in S THEN lost[m] + 1 ELSE lost[m]]
    /\ UNCHANGED <<phase, copies>>

Settle(m) ==
    /\ phase[m] = "held"
    /\ copies[m] = lost[m] + 1
    /\ phase' = [phase EXCEPT ![m] = "sent"]
    /\ UNCHANGED <<copies, lost>>

Drop(m) ==
    /\ phase[m] = "held"
    /\ phase' = [phase EXCEPT ![m] = "dropped"]
    /\ UNCHANGED <<copies, lost>>

Next ==
    \/ \E m \in Message :
          Submit(m) \/ Accept(m) \/ AcceptUnheard(m) \/ Settle(m) \/ Drop(m)
    \/ \E S \in SUBSET Message : Forget(S)

Spec == Init /\ [][Next]_promise

=============================================================================
