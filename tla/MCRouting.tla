----------------------------- MODULE MCRouting -----------------------------
(***************************************************************************)
(* An instance of Routing for TLC: a serial interface with connection 1    *)
(* and a UDP interface with connections 2 and 3, each with its thread.     *)
(***************************************************************************)
EXTENDS Routing

CONSTANTS serial, udp

MCInterface == [c \in Conns |-> IF c = 1 THEN serial ELSE udp]

\* Two components of a system, another system, and where packets may go
\* though nothing was ever heard from there.
A1  == <<1, 1>>
A2  == <<1, 2>>
B1  == <<2, 1>>
AnyA == <<1, 0>>
MCAddresses == {A1, A2, B1, AnyA}

To(id, source, dest) == [id |-> id, source |-> source, dest |-> dest]

MCPackets == {To(1, A1, None), To(2, B1, A2), To(3, A2, AnyA)}

MCPreloads == {{<<1, A2>>}}

\* Nothing may go to the other system; one component of the first has a
\* priority below the default, the other and its system as a whole above.
MCFilters ==
    {[k \in Packets \X Addresses |->
         CASE k[2] = A2 -> -1 [] k[2] = B1 -> Reject [] OTHER -> 1]}
=============================================================================
