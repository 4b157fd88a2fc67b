------------------------- MODULE MCGatewayRequests -------------------------
(* A small instance of the gateway's requests for TLC.                     *)
EXTENDS GatewayRequests, TLC
=============================================================================
