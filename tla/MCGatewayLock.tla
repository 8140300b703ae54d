----------------------------- MODULE MCGatewayLock -----------------------------
(***************************************************************************)
(* Instances of GatewayLock for TLC: two gateways of one configuration     *)
(* with their own state directories and an offline maintenance command,    *)
(* which takes the configuration's lock also under the override.           *)
(***************************************************************************)
EXTENDS GatewayLock, TLC

CONSTANTS g1, g2, d1, s1, s2, c1

RoleOf == [p \in Proc |-> IF p = d1 THEN "maintenance" ELSE "gateway"]
StateOf == [p \in Proc |-> IF p = g2 THEN s2 ELSE s1]
ConfigOf == [p \in Proc |-> c1]
=============================================================================
