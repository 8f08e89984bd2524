------------------------- MODULE WebhookDeliveryMC -------------------------
(* Two deliveries that match the second of two routines; it continues a    *)
(* session.                                                                *)
EXTENDS WebhookDelivery

OnlySecond  == [d \in Delivery |-> {2}]
SecondKeeps == [r \in Routine |-> IF r = 2 THEN "session" ELSE New]

=============================================================================
