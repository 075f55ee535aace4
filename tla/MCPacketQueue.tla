--------------------------- MODULE MCPacketQueue ---------------------------
(* Instances of PacketQueue for TLC. *)
EXTENDS PacketQueue

CONSTANTS p1, p2, c1, c2, pkt
=============================================================================
