---------------------------- MODULE MCSeshShipClaim ----------------------------
(* An instance of SeshShip that may lose its registry, over two histories. *)
EXTENDS SeshShip
CONSTANTS a, b
TwoLines == <<<<a, a, b>>, <<b, b, a>>>>
=============================================================================
