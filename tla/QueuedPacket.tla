---------------------------- MODULE QueuedPacket ----------------------------
(***************************************************************************)
(* The ordering of queued packets (src/src/QueuedPacket.cpp).  A queued    *)
(* packet is a record [packet, priority, ticket]; the ticket is an         *)
(* unsigned long long that wraps around, so the comparison operators work  *)
(* on the wrapped difference of two tickets.                               *)
(***************************************************************************)
EXTENDS Integers

CONSTANT Half     \* half the number of ticket values: 2^63 in the program

ASSUME HalfAssumption == Half \in Nat \ {0}

TicketMod == 2 * Half
Ticket    == 0 .. TicketMod - 1

\* Mutant of NextTicket: a counter that does not wrap.
NextTicketUnbounded(t) == t + 1

\* ticket_++ on an unsigned integer.
NextTicket(t) == IF t = TicketMod - 1 THEN 0 ELSE t + 1

\* a - b on unsigned integers.
Sub(a, b) == IF a >= b THEN a - b ELSE a - b + TicketMod

\* std::numeric_limits<unsigned long long>::max() / 2, the integer quotient.
MaxOverTwo == Half - 1

\* Mutant of Less: the tickets are compared as plain numbers.
LessByValue(lhs, rhs) ==
    \/ lhs.priority < rhs.priority
    \/ lhs.priority = rhs.priority /\ lhs.ticket > rhs.ticket

(***************************************************************************)
(* Among equal priorities the packet with the later ticket is the lesser   *)
(* one: it leaves the queue later.                                         *)
(***************************************************************************)
Less(lhs, rhs) ==
    \/ lhs.priority < rhs.priority
    \/ /\ lhs.priority = rhs.priority
       /\ Sub(rhs.ticket, lhs.ticket) > MaxOverTwo

\* The number of tickets drawn since x drew its own, x's included, when the
\* next ticket to be drawn is now.
Age(now, x) == Sub(now, x.ticket)

(***************************************************************************)
(* The obligation the comparison puts on its users (the note at            *)
(* QueuedPacket.cpp:102): all tickets compared with each other lie in one  *)
(* half of the ticket circle.                                              *)
(***************************************************************************)
InWindow(now, S) == \A x \in S : Age(now, x) \in 1 .. Half
=============================================================================
