--------------------------- MODULE MCUDPTransmit ---------------------------
(* Instances of UDPTransmit for TLC. *)
EXTENDS UDPTransmit, TLC

CONSTANTS p1, p2
=============================================================================
