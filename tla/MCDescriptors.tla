--------------------------- MODULE MCDescriptors ---------------------------
(* Instances of Descriptors for TLC. *)
EXTENDS Descriptors, TLC

CONSTANTS u1, u2, s1

Alike == Permutations(Sockets)
=============================================================================
