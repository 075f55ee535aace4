---------------------------- MODULE AtomicFilter ----------------------------
(***************************************************************************)
(* What a Filter is to those who share it (src/src/Filter.hpp:38): a table *)
(* of answers that never changes.  A call of will_accept looks its request *)
(* up in one step; there are no chains, no guards and no other threads.    *)
(***************************************************************************)
CONSTANTS Threads, Requests, Busy, Thrown

VARIABLES
    answers,    \* request -> what will_accept returns or throws
    request,    \* thread -> what it asks
    outcome     \* thread -> the answer it got, or Busy

vars == <<answers, request, outcome>>

Init ==
    /\ DOMAIN answers = Requests
    /\ request \in [Threads -> Requests]
    /\ outcome = [t \in Threads |-> Busy]

WillAccept(t) ==
    /\ outcome[t] = Busy
    /\ outcome' = [outcome EXCEPT ![t] = answers[request[t]]]
    /\ UNCHANGED <<answers, request>>

\* A thread that an error has ended asks nothing more.
Again(t) ==
    /\ outcome[t] \notin {Busy, Thrown}
    /\ \E r \in Requests : request' = [request EXCEPT ![t] = r]
    /\ outcome' = [outcome EXCEPT ![t] = Busy]
    /\ UNCHANGED answers

Next == \E t \in Threads : WillAccept(t) \/ Again(t)

Spec == Init /\ [][Next]_vars
=============================================================================
