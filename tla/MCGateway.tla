------------------------------ MODULE MCGateway ------------------------------
(***************************************************************************)
(* Two requests at a time: one endpoint without a body, like the kill      *)
(* switch, and one with a body that creates something, like an intent.     *)
(***************************************************************************)
EXTENDS GatewayProperties, TLC

CONSTANTS r1, r2, switch, create
=============================================================================
