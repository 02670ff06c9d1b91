------------------------------- MODULE MCAdmin -------------------------------
(* The instances of MCGateway with session administration.                  *)
EXTENDS GatewayAdmin, MCGateway
=============================================================================
