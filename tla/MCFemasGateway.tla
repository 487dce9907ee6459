--------------------------- MODULE MCFemasGateway ---------------------------
(* Two orders to be verified, and two of the strategies.                     *)
EXTENDS FemasGateway

CONSTANTS e1, e2

MCInitOrders == <<e1, e2>>
=============================================================================
