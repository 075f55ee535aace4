--------------------------- MODULE MCPacketParser ---------------------------
(* Constants for TLC: short headers, start bytes that are also lengths. *)
EXTENDS PacketParser, TLC

CONSTANTS peer1, peer2

MCBytes == 0 .. 3
MCStartByte == [V1 |-> 2, V2 |-> 3]
MCHeaderLength == [V1 |-> 3, V2 |-> 4]
MCIdLength == [V1 |-> 1, V2 |-> 1]
MCSymmetry == Permutations(Peers)
MCKnownIds == {<<1>>, <<3>>}
=============================================================================
