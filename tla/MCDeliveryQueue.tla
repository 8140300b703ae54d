-------------------------- MODULE MCDeliveryQueue --------------------------
(* Instances of DeliveryQueue for TLC. *)
EXTENDS DeliveryQueue
=============================================================================
