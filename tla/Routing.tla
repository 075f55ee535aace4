------------------------------ MODULE Routing ------------------------------
(***************************************************************************)
(* How a packet finds its way through mavtables: a receive thread adds the *)
(* source to the address pool of the connection the packet came in on      *)
(* (src/src/SerialInterface.cpp and UDPInterface.cpp) and hands the packet *)
(* to the connection pool (src/src/ConnectionPool.cpp), which offers it to *)
(* each connection (src/src/Connection.cpp).  A connection decides by its  *)
(* address pool (src/src/AddressPool.hpp), whose entries expire, and by    *)
(* the filter whether to queue the packet and with which priority.         *)
(*                                                                         *)
(* All receive threads share the connections.  Each critical section of an *)
(* address pool is an action, so between two of them other threads add     *)
(* addresses and time passes.  The filter depends on the configuration     *)
(* only (module Filter); here a configuration is the table of its answers. *)
(***************************************************************************)
EXTENDS Integers, Sequences, FiniteSets

CONSTANTS
    Threads,      \* receive threads, one for each interface
    Conns,        \* connections
    Interface,    \* connection -> the thread of its interface
    Serial,       \* serial connections: in the connection pool from the start
    Mirrors,      \* mirror connections
    Addresses,    \* MAVLink addresses, <<system, component>>
    Packets,      \* records [id, source, dest]
    None,         \* no destination, no packet or no connection
    Reject,       \* the answer of the filter that is no priority
    MaxPriority,  \* the greatest int
    Filters,      \* tables: <<packet, address>> -> Reject or a priority
    Preloads,     \* choices of preloaded <<connection, address>> pairs
    Timeout,      \* timeout_ of the address pools
    MaxTime,      \* bound: the time at which a behaviour stops
    MaxReceived   \* bound: the number of packets received

Broadcast == <<0, 0>>

ASSUME ConnsAssumption ==
    /\ Interface \in [Conns -> Threads]
    /\ None \notin Conns /\ Serial \subseteq Conns /\ Mirrors \subseteq Conns

ASSUME AddressesAssumption ==
    /\ Addresses \subseteq Nat \X Nat
    /\ Preloads \subseteq SUBSET (Serial \X Addresses)

ASSUME PacketsAssumption ==
    /\ None \notin Packets /\ None \notin Addresses
    /\ \A p \in Packets :
           p.source \in Addresses /\ p.dest \in Addresses \cup {None}

ASSUME FiltersAssumption ==
    /\ Reject \notin Int /\ MaxPriority \in Int
    /\ \A f \in Filters :
           /\ f \in [Packets \X Addresses -> Int \cup {Reject}]
           /\ \A k \in DOMAIN f : f[k] \in Int => f[k] <= MaxPriority

ASSUME TimeAssumption ==
    Timeout \in Nat /\ MaxTime \in Nat /\ MaxReceived \in Nat

VARIABLES
    filter,       \* the answers of will_accept
    clock,        \* steady_clock::now()
    members,      \* connections_ of the ConnectionPool
    seen,         \* connection -> address -> time in addresses_, or Absent
    heard,        \* history: like seen, but nothing is ever removed
    pc,           \* thread -> "idle", "join", "add", "lock", or one of
                  \* Sending
    packet,       \* thread -> the packet it is handling, or None
    from,         \* thread -> the connection that packet came in on
    started,      \* history: thread -> when it came in
    remaining,    \* thread -> connections the pool's loop has still to visit
    at,           \* thread -> the connection Connection::send runs on
    priority,     \* thread -> the priority it is about to push with
    got,          \* history: thread -> connection -> priorities pushed with
    received      \* number of packets received so far

vars == <<filter, clock, members, seen, heard, pc, packet, from, started,
          remaining, at, priority, got, received>>

Absent == -1

Time == 0 .. MaxTime

\* Where a thread holds the lock of the connection pool, shared.
Sending == {"loop", "dest", "list", "push"}

TypeOK ==
    /\ filter \in Filters
    /\ clock \in Time
    /\ members \in SUBSET Conns
    /\ seen \in [Conns -> [Addresses -> Time \cup {Absent}]]
    /\ heard \in [Conns -> [Addresses -> Time \cup {Absent}]]
    /\ pc \in [Threads -> {"idle", "join", "add", "lock"} \cup Sending]
    /\ packet \in [Threads -> Packets \cup {None}]
    /\ from \in [Threads -> Conns \cup {None}]
    /\ started \in [Threads -> Time]
    /\ remaining \in [Threads -> SUBSET Conns]
    /\ at \in [Threads -> Conns \cup {None}]
    /\ priority \in [Threads -> Int]
    /\ got \in [Threads -> [Conns -> Seq(Int)]]
    /\ received \in 0 .. MaxReceived

\* Serial connections may have preloaded addresses.
Init ==
    /\ filter \in Filters
    /\ clock = 0
    /\ members = Serial
    /\ \E preload \in Preloads :
           seen = [c \in Conns |-> [a \in Addresses |->
                      IF <<c, a>> \in preload THEN 0 ELSE Absent]]
    /\ heard = seen
    /\ pc = [t \in Threads |-> "idle"]
    /\ packet = [t \in Threads |-> None]
    /\ from = [t \in Threads |-> None]
    /\ started = [t \in Threads |-> 0]
    /\ remaining = [t \in Threads |-> {}]
    /\ at = [t \in Threads |-> None]
    /\ priority = [t \in Threads |-> 0]
    /\ got = [t \in Threads |-> [c \in Conns |-> <<>>]]
    /\ received = 0

handling == <<packet, from, started>>

-----------------------------------------------------------------------------
(* AddressPool *)

Expired(c, a) == clock - seen[c][a] > Timeout

Reachable(c, a) == seen[c][a] # Absent /\ ~Expired(c, a)

\* The addresses() of the pool of c.
Live(c) == {a \in Addresses : Reachable(c, a)}

\* Entries of S that have expired are erased from the pool of c.
Erase(c, S) ==
    seen' = [seen EXCEPT ![c] = [a \in Addresses |->
                IF a \in S \ Live(c) THEN Absent ELSE seen[c][a]]]

-----------------------------------------------------------------------------
(* receive_packet of the interfaces *)

\* A packet comes in; a UDP connection may have to be made for it first.
Receive(t, c, p) ==
    /\ pc[t] = "idle"
    /\ Interface[c] = t
    /\ received < MaxReceived
    /\ received' = received + 1
    /\ packet' = [packet EXCEPT ![t] = p]
    /\ from' = [from EXCEPT ![t] = c]
    /\ started' = [started EXCEPT ![t] = clock]
    /\ pc' = [pc EXCEPT ![t] = IF c \in members THEN "add" ELSE "join"]
    /\ UNCHANGED <<filter, clock, members, seen, heard, remaining, at,
                   priority, got>>

\* ConnectionPool::add waits until no thread is in ConnectionPool::send.
Join(t) ==
    /\ pc[t] = "join"
    /\ \A u \in Threads : pc[u] \notin Sending
    /\ members' = members \cup {from[t]}
    /\ pc' = [pc EXCEPT ![t] = "add"]
    /\ UNCHANGED <<filter, clock, seen, heard, handling, remaining, at,
                   priority, got, received>>

\* Mutant of AddAddress: the time of an address that is there is kept.
AddIfAbsent(t) ==
    /\ pc[t] = "add"
    /\ seen' = [seen EXCEPT ![from[t]][packet[t].source] =
                   IF @ = Absent THEN clock ELSE @]
    /\ heard' = [heard EXCEPT ![from[t]][packet[t].source] = clock]
    /\ pc' = [pc EXCEPT ![t] = "lock"]
    /\ UNCHANGED <<filter, clock, members, handling, remaining, at, priority,
                   got, received>>

\* Mutant of AddAddress: the time is that at which the entry expires.
AddDeadline(t) ==
    /\ pc[t] = "add"
    /\ seen' = [seen EXCEPT ![from[t]][packet[t].source] = clock + Timeout]
    /\ heard' = [heard EXCEPT ![from[t]][packet[t].source] = clock]
    /\ pc' = [pc EXCEPT ![t] = "lock"]
    /\ UNCHANGED <<filter, clock, members, handling, remaining, at, priority,
                   got, received>>

\* add_address of the source.
AddAddress(t) ==
    /\ pc[t] = "add"
    /\ seen' = [seen EXCEPT ![from[t]][packet[t].source] = clock]
    /\ heard' = [heard EXCEPT ![from[t]][packet[t].source] = clock]
    /\ pc' = [pc EXCEPT ![t] = "lock"]
    /\ UNCHANGED <<filter, clock, members, handling, remaining, at, priority,
                   got, received>>

\* ConnectionPool::send takes its lock, shared, and starts its loop.
Lock(t) ==
    /\ pc[t] = "lock"
    /\ remaining' = [remaining EXCEPT ![t] = members]
    /\ pc' = [pc EXCEPT ![t] = "loop"]
    /\ UNCHANGED <<filter, clock, members, seen, heard, handling, at, priority,
                   got, received>>

-----------------------------------------------------------------------------
(* Connection::send, for each connection of the pool *)

\* send_to_all_ is the one to call.
ToAll(t, c) == packet[t].dest \in {None, Broadcast} \/ c \in Mirrors

\* send_to_system_ is the one to call.
ToSystem(t, c) == ~ToAll(t, c) /\ packet[t].dest[2] = 0

\* The addresses among S that the packet of t is to reach through c.
Relevant(t, c, S) ==
    IF ToAll(t, c) THEN S ELSE {a \in S : a[1] = packet[t].dest[1]}

\* What the filter is asked about for the sake of a: send_to_address_ asks
\* about the destination, even when another component stands in for it.
Asked(t, c, a) ==
    IF ToAll(t, c) \/ ToSystem(t, c) THEN a ELSE packet[t].dest

\* The priorities the filter accepts the packet with, for the sake of S.
Accepted(t, c, S) ==
    {filter[packet[t], Asked(t, c, a)] : a \in Relevant(t, c, S)} \ {Reject}

\* Mutant of Highest: the search for the maximum starts at zero.
HighestFromZero(S) == CHOOSE m \in S \cup {0} : \A n \in S \cup {0} : m >= n

Highest(S) == CHOOSE m \in S : \A n \in S : m >= n

\* Mutant of Leave: a connection that is through with the packet ends the
\* loop of the pool.
LeaveAll(t, c) ==
    /\ remaining' = [remaining EXCEPT ![t] = {}]
    /\ at' = [at EXCEPT ![t] = None]
    /\ priority' = [priority EXCEPT ![t] = 0]
    /\ pc' = [pc EXCEPT ![t] = "loop"]

\* Connection::send on c is over.
Leave(t, c) ==
    /\ remaining' = [remaining EXCEPT ![t] = @ \ {c}]
    /\ at' = [at EXCEPT ![t] = None]
    /\ priority' = [priority EXCEPT ![t] = 0]
    /\ pc' = [pc EXCEPT ![t] = "loop"]

\* Connection::send on c goes on to push, or it is over.
Offer(t, c, priorities) ==
    IF priorities = {}
      THEN Leave(t, c)
      ELSE /\ priority' = [priority EXCEPT ![t] = Highest(priorities)]
           /\ pc' = [pc EXCEPT ![t] = "push"]
           /\ UNCHANGED <<remaining, at>>

\* The packet is dropped if its source is reachable on the connection.
CheckSource(t, c) ==
    /\ pc[t] = "loop"
    /\ c \in remaining[t]
    /\ Erase(c, {packet[t].source})
    /\ IF Reachable(c, packet[t].source)
         THEN Leave(t, c)
         ELSE /\ pc' = [pc EXCEPT ![t] = IF ToAll(t, c) \/ ToSystem(t, c)
                                           THEN "list" ELSE "dest"]
              /\ at' = [at EXCEPT ![t] = c]
              /\ UNCHANGED <<remaining, priority>>
    /\ UNCHANGED <<filter, clock, members, heard, handling, got, received>>

\* send_to_address_: is the very destination reachable?
CheckDest(t) ==
    /\ pc[t] = "dest"
    /\ Erase(at[t], {packet[t].dest})
    /\ IF Reachable(at[t], packet[t].dest)
         THEN Offer(t, at[t], Accepted(t, at[t], {packet[t].dest}))
         ELSE /\ pc' = [pc EXCEPT ![t] = "list"]
              /\ UNCHANGED <<remaining, at, priority>>
    /\ UNCHANGED <<filter, clock, members, heard, handling, got, received>>

\* The loops over addresses(): of send_to_all_, of send_to_system_, and of
\* send_to_address_ for want of the destination.
ListAddresses(t) ==
    /\ pc[t] = "list"
    /\ Erase(at[t], Addresses)
    /\ Offer(t, at[t], Accepted(t, at[t], Live(at[t])))
    /\ UNCHANGED <<filter, clock, members, heard, handling, got, received>>

\* queue_->push.
Push(t) ==
    /\ pc[t] = "push"
    /\ got' = [got EXCEPT ![t][at[t]] = Append(@, priority[t])]
    /\ Leave(t, at[t])
    /\ UNCHANGED <<filter, clock, members, seen, heard, handling, received>>

\* The loop is over: ConnectionPool::send unlocks and returns.
Done(t) ==
    /\ pc[t] = "loop"
    /\ remaining[t] = {}
    /\ pc' = [pc EXCEPT ![t] = "idle"]
    /\ packet' = [packet EXCEPT ![t] = None]
    /\ from' = [from EXCEPT ![t] = None]
    /\ started' = [started EXCEPT ![t] = 0]
    /\ got' = [got EXCEPT ![t] = [c \in Conns |-> <<>>]]
    /\ UNCHANGED <<filter, clock, members, seen, heard, remaining, at,
                   priority, received>>

-----------------------------------------------------------------------------
Tick ==
    /\ clock < MaxTime
    /\ clock' = clock + 1
    /\ UNCHANGED <<filter, members, seen, heard, pc, handling, remaining, at,
                   priority, got, received>>

Step(t) ==
    \/ \E c \in Conns, p \in Packets : Receive(t, c, p)
    \/ Join(t)
    \/ AddAddress(t)
    \/ Lock(t)
    \/ \E c \in Conns : CheckSource(t, c)
    \/ CheckDest(t)
    \/ ListAddresses(t)
    \/ Push(t)
    \/ Done(t)

Next == Tick \/ \E t \in Threads : Step(t)

Spec == Init /\ [][Next]_vars

-----------------------------------------------------------------------------
(* Properties *)

(***************************************************************************)
(* A packet never goes back out on the connection it came in on: its       *)
(* source is in the pool of that connection when the connection is asked   *)
(* (Connection.cpp:335).  That holds even for a thread that is held up for *)
(* longer than the timeout, so that the source has expired: it is the last *)
(* address added there, so every other has expired too.                    *)
(***************************************************************************)
NoEcho ==
    \A t \in Threads : pc[t] # "idle" => got[t][from[t]] = <<>>

(***************************************************************************)
(* A connection gets a packet at most once, although several addresses may *)
(* be behind it, and the packet only goes where it may: with a priority    *)
(* the filter gave it for the sake of an address it was meant for and that *)
(* was heard there, at the earliest, one timeout before the packet came.   *)
(***************************************************************************)
Meant(t, c, a, p) ==
    /\ a \in Relevant(t, c, Addresses)
    /\ heard[c][a] # Absent
    /\ started[t] - heard[c][a] <= Timeout
    /\ filter[packet[t], Asked(t, c, a)] = p

Justified ==
    \A t \in Threads, c \in Conns :
        /\ Len(got[t][c]) <= 1
        /\ \A i \in 1 .. Len(got[t][c]) :
               \E a \in Addresses : Meant(t, c, a, got[t][c][i])

(***************************************************************************)
(* Nothing is lost between two looks at an address pool: when the loop has *)
(* passed a connection that never heard the source, and an address the     *)
(* packet was meant for was heard there before the packet came and is      *)
(* still fresh, and the filter accepts, then the packet was queued there   *)
(* with that priority or a higher one.                                     *)
(***************************************************************************)
Delivered ==
    \A t \in Threads, c \in Conns :
        /\ pc[t] \in Sending
        /\ c \in members \ remaining[t]
        /\ heard[c][packet[t].source] = Absent
        => \A a \in Relevant(t, c, Addresses) :
               /\ heard[c][a] # Absent
               /\ heard[c][a] < started[t]
               /\ clock - heard[c][a] <= Timeout
               /\ filter[packet[t], Asked(t, c, a)] # Reject
               => /\ got[t][c] # <<>>
                  /\ got[t][c][1] >= filter[packet[t], Asked(t, c, a)]
=============================================================================
