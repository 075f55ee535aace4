--------------------------- MODULE PriorityBuffer ---------------------------
(***************************************************************************)
(* What PacketQueue promises its users (src/src/PacketQueue.hpp:34): an    *)
(* atomic buffer that hands out the packet of highest priority and, among  *)
(* packets of one priority, the one that arrived first; once closed it     *)
(* hands out nothing.  Arrival numbers are natural numbers that never      *)
(* wrap, and there are no threads.                                         *)
(***************************************************************************)
EXTENDS Integers

CONSTANTS Packets, Priorities

VARIABLES
    buffer,     \* set of [packet, priority, arrival]
    arrivals,   \* number of packets ever pushed
    open        \* FALSE once closed

vars == <<buffer, arrivals, open>>

Before(x, y) ==
    \/ x.priority > y.priority
    \/ x.priority = y.priority /\ x.arrival < y.arrival

Init ==
    /\ buffer = {}
    /\ arrivals = 0
    /\ open = TRUE

Push ==
    \E p \in Packets, r \in Priorities :
        /\ buffer' = buffer \cup
               {[packet |-> p, priority |-> r, arrival |-> arrivals]}
        /\ arrivals' = arrivals + 1
        /\ UNCHANGED open

Take ==
    \E x \in buffer :
        /\ open
        /\ \A y \in buffer \ {x} : Before(x, y)
        /\ buffer' = buffer \ {x}
        /\ UNCHANGED <<arrivals, open>>

Close ==
    /\ open' = FALSE
    /\ UNCHANGED <<buffer, arrivals>>

Next == Push \/ Take \/ Close

Spec == Init /\ [][Next]_vars
=============================================================================
