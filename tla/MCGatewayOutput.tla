-------------------------- MODULE MCGatewayOutput ---------------------------
(* Model values for model-checking GatewayOutput.                          *)
EXTENDS GatewayOutput

CONSTANTS v1, v2

OneViewer  == {v1}
ViewerPair == {v1, v2}
=============================================================================
