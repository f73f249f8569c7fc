-------------------------- MODULE MCGatewayLifecycle --------------------------
(* Instances of GatewayLifecycle for TLC. *)
EXTENDS GatewayLifecycle
=============================================================================
