---------------------------- MODULE MCGatewayWork ----------------------------
(* Small instances of GatewayWork for TLC. *)
EXTENDS GatewayWork, TLC

(* The callers are interchangeable. *)
Symmetry == Permutations(Caller)
=============================================================================
