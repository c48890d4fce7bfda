------------------------------ MODULE MCDelivery ------------------------------
(* The delivery pipeline on small instances: no commands arrive. *)
EXTENDS DeliveryInvariant

MCIntervals == {100}
NoMessages == {}
=============================================================================
