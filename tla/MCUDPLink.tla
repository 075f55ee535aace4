----------------------------- MODULE MCUDPLink -----------------------------
(* Instances of UDPLink for TLC. *)
EXTENDS UDPLink, TLC

CONSTANTS p1, p2
=============================================================================
