--------------------------- MODULE Routing_proof ---------------------------
(***************************************************************************)
(* Proofs about Routing, for any number of threads, connections, addresses *)
(* and packets, any filter and any timeout: type correctness, no packet    *)
(* returns to the connection it came in on, every push is justified, and   *)
(* a send that ends has reached every connection it had to reach.          *)
(***************************************************************************)
EXTENDS Routing, WellFoundedInduction, NaturalsInduction, TLAPS

-----------------------------------------------------------------------------
(* The maximum *)

\* Priorities are bounded, so among those that accept there is a highest.
LEMMA HighestIsMax ==
    ASSUME NEW S \in SUBSET Int, S # {}, \A n \in S : n <= MaxPriority
    PROVE  Highest(S) \in S /\ \A n \in S : n <= Highest(S)
  <1> DEFINE T == {MaxPriority - n : n \in S}
  <1>0. MaxPriority \in Int
    BY FiltersAssumption, Zenon
  <1>1. T \subseteq Nat /\ T # {}
    <2>1. \A n \in S : MaxPriority - n \in Nat
      BY <1>0
    <2> QED
      BY <2>1
  <1>2. PICK m \in T : \A k \in T : <<k, m>> \notin OpToRel(<, Nat)
    <2> HIDE DEF T
    <2> QED
      BY <1>1, WFMin, NatLessThanWellFounded, Zenon
  <1>3. \A k \in T : ~(k < m)
    BY <1>1, <1>2 DEF OpToRel
  <1>4. PICK h \in S : m = MaxPriority - h
    OBVIOUS
  <1>5. \A n \in S : h >= n
    <2> SUFFICES ASSUME NEW n \in S PROVE h >= n
      OBVIOUS
    <2>1. ~(MaxPriority - n < MaxPriority - h)
      BY <1>3, <1>4
    <2> QED
      BY <2>1, <1>0
  <1>6. Highest(S) \in S /\ \A n \in S : Highest(S) >= n
    BY <1>4, <1>5 DEF Highest
  <1> QED
    BY <1>6

-----------------------------------------------------------------------------
(* The invariants *)

\* What a thread knows of the packet in hand, at each point of its code.
Working(t) ==
    /\ pc[t] # "idle" => /\ packet[t] \in Packets
                         /\ from[t] \in Conns
                         /\ Interface[from[t]] = t
    /\ pc[t] \in {"dest", "list", "push"} => at[t] \in remaining[t]
    /\ pc[t] = "dest" => ~ToAll(t, at[t])

Busy == \A t \in Threads : Working(t)

\* A pool entry is the last time the address was heard, or it was erased
\* when that time was more than the timeout ago.
Entries ==
    \A c \in Conns, a \in Addresses :
        /\ heard[c][a] <= clock
        /\ seen[c][a] # Absent => seen[c][a] = heard[c][a]
        /\ seen[c][a] = Absent /\ heard[c][a] # Absent =>
               clock - heard[c][a] > Timeout

\* Where a thread has added the source of its packet.
Added == {"lock"} \cup Sending

\* On the connection of such a packet nothing was heard after its source.
Newest ==
    \A t \in Threads : pc[t] \in Added =>
        /\ heard[from[t]][packet[t].source] # Absent
        /\ \A a \in Addresses :
               heard[from[t]][a] <= heard[from[t]][packet[t].source]

\* A thread that is past the first check of that connection found the source
\* expired, and so it does not come to push.
Outdated ==
    \A t \in Threads :
        /\ pc[t] \in {"dest", "list"} /\ at[t] = from[t] =>
               clock - heard[from[t]][packet[t].source] > Timeout
        /\ pc[t] = "push" => at[t] # from[t]

\* A connection still to be visited has not got the packet.
Untouched ==
    \A t \in Threads, c \in Conns :
        pc[t] \notin Sending \/ c \in remaining[t] => got[t][c] = <<>>

\* The push to come is justified.
Prepared ==
    \A t \in Threads :
        /\ started[t] <= clock
        /\ pc[t] = "push" =>
               \E c \in Conns, a \in Addresses, n \in Int :
                   at[t] = c /\ priority[t] = n /\ Meant(t, c, a, n)

\* So is the one push a connection may have had.
Pushed ==
    \A t \in Threads, c \in Conns :
        \/ got[t][c] = <<>>
        \/ \E a \in Addresses, n \in Int :
               got[t][c] = <<n>> /\ Meant(t, c, a, n)

-----------------------------------------------------------------------------
(* Lemmas *)

\* What Accepted returns are priorities of addresses the packet is for.
LEMMA AcceptedPriorities ==
    ASSUME TypeOK, NEW t \in Threads, packet[t] \in Packets, NEW c,
           NEW S \in SUBSET Addresses
    PROVE  /\ Accepted(t, c, S) \in SUBSET Int
           /\ \A n \in Accepted(t, c, S) : n <= MaxPriority
           /\ \A n \in Accepted(t, c, S) :
                  \E a \in Relevant(t, c, S) :
                      n = filter[packet[t], Asked(t, c, a)]
  <1>1. Relevant(t, c, S) \subseteq S
    BY DEF Relevant
  <1>2. \A a \in S : Asked(t, c, a) \in Addresses
    BY PacketsAssumption DEF Asked, ToAll
  <1>3. \A a \in S : <<packet[t], Asked(t, c, a)>> \in Packets \X Addresses
    BY <1>2
  <1>4. /\ filter \in [Packets \X Addresses -> Int \cup {Reject}]
        /\ \A k \in DOMAIN filter :
               filter[k] \in Int => filter[k] <= MaxPriority
    BY FiltersAssumption, Zenon DEF TypeOK
  <1>5. \A k \in Packets \X Addresses :
            /\ filter[k] \in Int \cup {Reject}
            /\ filter[k] \in Int => filter[k] <= MaxPriority
    BY <1>4
  <1>6. \A n \in Accepted(t, c, S) : \E a \in Relevant(t, c, S) :
            n = filter[packet[t], Asked(t, c, a)] /\ n # Reject
    BY DEF Accepted
  <1> QED
    BY <1>1, <1>3, <1>5, <1>6

\* An offer that comes to push does so with one of the priorities.
LEMMA OfferPushes ==
    ASSUME TypeOK, NEW t \in Threads, packet[t] \in Packets, NEW c,
           NEW S \in SUBSET Addresses, Offer(t, c, Accepted(t, c, S))
    PROVE  \/ Leave(t, c)
           \/ /\ pc' = [pc EXCEPT ![t] = "push"]
              /\ UNCHANGED <<remaining, at>>
              /\ \E n \in Accepted(t, c, S) :
                     n \in Int /\ priority' = [priority EXCEPT ![t] = n]
  <1> DEFINE A == Accepted(t, c, S)
  <1>1. CASE A = {}
    BY <1>1 DEF Offer
  <1>2. CASE A # {}
    <2>1. A \in SUBSET Int /\ \A n \in A : n <= MaxPriority
      BY AcceptedPriorities
    <2> HIDE DEF A
    <2>2. Highest(A) \in A
      BY <1>2, <2>1, HighestIsMax
    <2>3. /\ priority' = [priority EXCEPT ![t] = Highest(A)]
          /\ pc' = [pc EXCEPT ![t] = "push"]
          /\ UNCHANGED <<remaining, at>>
      BY <1>2 DEF Offer, A
    <2> QED
      BY <2>1, <2>2, <2>3 DEF A
  <1> QED
    BY <1>1, <1>2

\* Whether a connection reaches an address depends on when it was heard.
LEMMA ReachableIfHeard ==
    ASSUME TypeOK, Entries, NEW c \in Conns, NEW a \in Addresses
    PROVE  Reachable(c, a) <=>
               heard[c][a] # Absent /\ clock - heard[c][a] <= Timeout
  <1>1. /\ seen[c][a] \in Time \cup {Absent}
        /\ heard[c][a] \in Time \cup {Absent}
        /\ clock \in Time
    BY DEF TypeOK
  <1> QED
    BY <1>1, TimeAssumption DEF Entries, Reachable, Expired, Time, Absent

\* Erasing keeps the type of the pools, and what Entries says of them.
LEMMA EraseKeeps ==
    ASSUME TypeOK, NEW c \in Conns, NEW S \in SUBSET Addresses, Erase(c, S)
    PROVE  /\ seen' \in [Conns -> [Addresses -> Time \cup {Absent}]]
           /\ Entries /\ UNCHANGED <<clock, heard>> => Entries'
  <1>1. seen' = [seen EXCEPT ![c] = [a \in Addresses |->
                    IF a \in S \ Live(c) THEN Absent ELSE seen[c][a]]]
    BY DEF Erase
  <1>2. seen' \in [Conns -> [Addresses -> Time \cup {Absent}]]
    BY <1>1 DEF TypeOK
  <1>3. ASSUME Entries, UNCHANGED <<clock, heard>> PROVE Entries'
    <2> SUFFICES ASSUME NEW d \in Conns, NEW a \in Addresses
                 PROVE  /\ heard[d][a] <= clock
                        /\ seen'[d][a] # Absent => seen'[d][a] = heard[d][a]
                        /\ seen'[d][a] = Absent /\ heard[d][a] # Absent =>
                               clock - heard[d][a] > Timeout
      BY <1>3 DEF Entries
    <2>1. CASE seen'[d][a] = seen[d][a]
      BY <1>3, <2>1 DEF Entries
    <2>2. CASE seen'[d][a] # seen[d][a]
      <3>1. d = c /\ a \notin Live(c) /\ seen'[d][a] = Absent
        BY <1>1, <2>2 DEF TypeOK
      <3>2. ~Reachable(d, a)
        BY <3>1 DEF Live
      <3>3. /\ heard[d][a] \in Time \cup {Absent}
            /\ clock \in Time
        BY DEF TypeOK
      <3> QED
        BY <1>3, <3>1, <3>2, <3>3, ReachableIfHeard, TimeAssumption
        DEF Entries, Time, Absent
    <2> QED
      BY <2>1, <2>2
  <1> QED
    BY <1>2, <1>3

-----------------------------------------------------------------------------
(* Types, and what a thread knows *)

\* Nothing that concerns a thread changes but by its own steps.
Same(t) ==
    /\ pc'[t] = pc[t] /\ packet'[t] = packet[t] /\ from'[t] = from[t]
    /\ started'[t] = started[t] /\ remaining'[t] = remaining[t]
    /\ at'[t] = at[t] /\ priority'[t] = priority[t] /\ got'[t] = got[t]

LEMMA OthersStay ==
    ASSUME TypeOK, NEW t \in Threads, Step(t), NEW u \in Threads, u # t
    PROVE  Same(u)
  <1> USE DEF Same, TypeOK, handling
  <1>1. ASSUME NEW c \in Conns, NEW p \in Packets, Receive(t, c, p)
        PROVE  Same(u)
    BY <1>1 DEF Receive
  <1>2. CASE Join(t)
    BY <1>2 DEF Join
  <1>3. CASE AddAddress(t)
    BY <1>3 DEF AddAddress
  <1>4. ASSUME NEW c \in Conns, CheckSource(t, c) PROVE Same(u)
    BY <1>4 DEF CheckSource, Leave
  <1>5. CASE CheckDest(t)
    BY <1>5 DEF CheckDest, Offer, Leave
  <1>6. CASE ListAddresses(t)
    BY <1>6 DEF ListAddresses, Offer, Leave
  <1>7. CASE Push(t)
    BY <1>7 DEF Push, Leave
  <1>8. CASE Done(t)
    BY <1>8 DEF Done
  <1>9. CASE Lock(t)
    BY <1>9 DEF Lock
  <1> QED
    BY <1>1, <1>2, <1>3, <1>4, <1>5, <1>6, <1>7, <1>8, <1>9 DEF Step

\* The configuration stays.
LEMMA FilterStays ==
    ASSUME [Next]_vars PROVE filter' = filter
  BY DEF Next, vars, Step, Tick, Receive, Join, AddAddress, Lock,
     CheckSource, CheckDest, ListAddresses, Push, Done

\* What leaving a connection does, one thread at a time.
LEMMA LeaveTypes ==
    ASSUME TypeOK, NEW t \in Threads, NEW c, Leave(t, c)
    PROVE  /\ pc' \in [Threads -> {"idle", "join", "add", "lock"} \cup Sending]
           /\ remaining' \in [Threads -> SUBSET Conns]
           /\ at' \in [Threads -> Conns \cup {None}]
           /\ priority' \in [Threads -> Int]
           /\ pc'[t] = "loop" /\ remaining'[t] = remaining[t] \ {c}
  <1>1. pc' = [pc EXCEPT ![t] = "loop"] /\ "loop" \in Sending
    BY DEF Leave, Sending
  <1>2. pc \in [Threads -> {"idle", "join", "add", "lock"} \cup Sending]
    BY DEF TypeOK
  <1>3. remaining' = [remaining EXCEPT ![t] = @ \ {c}]
    BY DEF Leave
  <1>4. at' = [at EXCEPT ![t] = None]
    BY DEF Leave
  <1>5. priority' = [priority EXCEPT ![t] = 0]
    BY DEF Leave
  <1>6. /\ pc' \in [Threads -> {"idle", "join", "add", "lock"} \cup Sending]
        /\ pc'[t] = "loop"
    BY <1>1, <1>2
  <1>7. /\ remaining' \in [Threads -> SUBSET Conns]
        /\ remaining'[t] = remaining[t] \ {c}
    BY <1>3 DEF TypeOK
  <1>8. at' \in [Threads -> Conns \cup {None}]
    BY <1>4 DEF TypeOK
  <1>9. priority' \in [Threads -> Int]
    BY <1>5 DEF TypeOK
  <1> QED
    BY <1>6, <1>7, <1>8, <1>9

\* Each step keeps the types.
LEMMA TypesKept ==
    ASSUME TypeOK, Busy, NEW t \in Threads, Step(t)
    PROVE  TypeOK'
  <1> USE DEF handling, Sending
  <1>1. ASSUME NEW c \in Conns, NEW p \in Packets, Receive(t, c, p)
        PROVE  TypeOK'
    BY <1>1, TimeAssumption DEF Receive, TypeOK
  <1>2. CASE Join(t)
    BY <1>2 DEF Join, TypeOK, Busy, Working
  <1>3. CASE AddAddress(t)
    <2>1. /\ from[t] \in Conns /\ packet[t].source \in Addresses
          /\ clock \in Time
      BY <1>3, PacketsAssumption DEF AddAddress, Busy, Working, TypeOK
    <2> QED
      BY <1>3, <2>1 DEF AddAddress, TypeOK
  <1>4. ASSUME NEW c \in Conns, CheckSource(t, c) PROVE TypeOK'
    <2>1. packet[t].source \in Addresses
      BY <1>4, PacketsAssumption DEF CheckSource, Busy, Working
    <2>2. seen' \in [Conns -> [Addresses -> Time \cup {Absent}]]
      BY <1>4, <2>1, EraseKeeps DEF CheckSource
    <2>3. CASE Leave(t, c)
      BY <1>4, <2>2, <2>3, LeaveTypes DEF CheckSource, TypeOK
    <2>4. CASE ~Reachable(c, packet[t].source)
      BY <1>4, <2>2, <2>4 DEF CheckSource, TypeOK
    <2> QED
      BY <1>4, <2>3, <2>4 DEF CheckSource
  <1>5. ASSUME NEW S \in SUBSET Addresses, pc[t] # "idle", at[t] \in Conns,
               Offer(t, at[t], Accepted(t, at[t], S)),
               seen' \in [Conns -> [Addresses -> Time \cup {Absent}]],
               UNCHANGED <<filter, clock, members, heard, handling, got,
                           received>>
        PROVE  TypeOK'
    <2>1. packet[t] \in Packets
      BY <1>5 DEF Busy, Working
    <2>2. \/ Leave(t, at[t])
          \/ /\ pc' = [pc EXCEPT ![t] = "push"]
             /\ UNCHANGED <<remaining, at>>
             /\ \E n \in Int : priority' = [priority EXCEPT ![t] = n]
      BY <1>5, <2>1, OfferPushes
    <2>3. CASE Leave(t, at[t])
      BY <1>5, <2>3, LeaveTypes DEF TypeOK
    <2>4. CASE /\ pc' = [pc EXCEPT ![t] = "push"]
               /\ UNCHANGED <<remaining, at>>
               /\ \E n \in Int : priority' = [priority EXCEPT ![t] = n]
      BY <1>5, <2>4 DEF TypeOK
    <2> QED
      BY <2>2, <2>3, <2>4
  <1>6. CASE CheckDest(t)
    <2>1. at[t] \in Conns /\ packet[t] \in Packets
      BY <1>6 DEF CheckDest, Busy, Working, TypeOK
    <2>2. packet[t].dest \in Addresses
      BY <1>6, <2>1, PacketsAssumption DEF CheckDest, Busy, Working, ToAll
    <2>3. seen' \in [Conns -> [Addresses -> Time \cup {Absent}]]
      BY <1>6, <2>1, <2>2, EraseKeeps DEF CheckDest
    <2>4. CASE Offer(t, at[t], Accepted(t, at[t], {packet[t].dest}))
      BY <1>5, <1>6, <2>1, <2>2, <2>3, <2>4 DEF CheckDest
    <2>5. CASE /\ pc' = [pc EXCEPT ![t] = "list"]
               /\ UNCHANGED <<remaining, at, priority>>
      BY <1>6, <2>3, <2>5 DEF CheckDest, TypeOK
    <2> QED
      BY <1>6, <2>4, <2>5 DEF CheckDest
  <1>7. CASE ListAddresses(t)
    <2>1. at[t] \in Conns
      BY <1>7 DEF ListAddresses, Busy, Working, TypeOK
    <2>2. seen' \in [Conns -> [Addresses -> Time \cup {Absent}]]
      BY <1>7, <2>1, EraseKeeps DEF ListAddresses
    <2>3. Live(at[t]) \in SUBSET Addresses
      BY DEF Live
    <2> QED
      BY <1>5, <1>7, <2>1, <2>2, <2>3 DEF ListAddresses
  <1>8. CASE Push(t)
    <2>1. at[t] \in Conns /\ priority[t] \in Int /\ got[t][at[t]] \in Seq(Int)
      BY <1>8 DEF Push, Busy, Working, TypeOK
    <2>2. Append(got[t][at[t]], priority[t]) \in Seq(Int)
      BY <2>1
    <2>3. got' \in [Threads -> [Conns -> Seq(Int)]]
      BY <1>8, <2>2 DEF Push, TypeOK
    <2> QED
      BY <1>8, <2>3 DEF Push, Leave, TypeOK
  <1>9. CASE Done(t)
    <2>1. [c \in Conns |-> <<>>] \in [Conns -> Seq(Int)] /\ 0 \in Time
      BY TimeAssumption DEF Time
    <2> QED
      BY <1>9, <2>1 DEF Done, TypeOK
  <1>10. CASE Lock(t)
    BY <1>10 DEF Lock, TypeOK
  <1> QED
    BY <1>1, <1>2, <1>3, <1>4, <1>6, <1>7, <1>8, <1>9, <1>10 DEF Step

\* Each step keeps what its thread knows.
LEMMA BusyKept ==
    ASSUME TypeOK, Busy, NEW t \in Threads, Step(t)
    PROVE  Busy'
  <1> USE DEF handling
  <1>1. ASSUME NEW u \in Threads, u # t PROVE Working(u)'
    BY <1>1, OthersStay DEF Same, Busy, Working, ToAll
  <1> SUFFICES Working(t)'
    BY <1>1 DEF Busy
  <1>2. ASSUME NEW c, c \in remaining[t], packet[t] \in Packets,
               from[t] \in Conns, Interface[from[t]] = t, Leave(t, c),
               UNCHANGED handling
        PROVE  Working(t)'
    BY <1>2, LeaveTypes DEF Working
  <1>3. ASSUME NEW c \in Conns, NEW p \in Packets, Receive(t, c, p)
        PROVE  Working(t)'
    BY <1>3 DEF Receive, Working, TypeOK
  <1>4. CASE Join(t)
    BY <1>4 DEF Join, Busy, Working, TypeOK
  <1>5. CASE AddAddress(t)
    BY <1>5 DEF AddAddress, Busy, Working, TypeOK
  <1>6. ASSUME NEW c \in Conns, CheckSource(t, c) PROVE Working(t)'
    <2>1. packet[t] \in Packets /\ from[t] \in Conns /\ Interface[from[t]] = t
      BY <1>6 DEF CheckSource, Busy, Working
    <2>2. CASE Leave(t, c)
      BY <1>2, <1>6, <2>1, <2>2 DEF CheckSource
    <2>3. CASE ~Reachable(c, packet[t].source)
      BY <1>6, <2>1, <2>3 DEF CheckSource, Working, TypeOK, ToAll
    <2> QED
      BY <1>6, <2>2, <2>3 DEF CheckSource
  <1>7. ASSUME NEW S \in SUBSET Addresses, pc[t] \in {"dest", "list"},
               Offer(t, at[t], Accepted(t, at[t], S)), UNCHANGED handling
        PROVE  Working(t)'
    <2>1. /\ packet[t] \in Packets /\ from[t] \in Conns
          /\ Interface[from[t]] = t /\ at[t] \in remaining[t]
      BY <1>7 DEF Busy, Working
    <2>2. CASE Leave(t, at[t])
      BY <1>2, <1>7, <2>1, <2>2
    <2>3. CASE pc' = [pc EXCEPT ![t] = "push"] /\ UNCHANGED <<remaining, at>>
      BY <1>7, <2>1, <2>3 DEF Working, TypeOK
    <2> QED
      BY <1>7, <2>1, <2>2, <2>3, OfferPushes
  <1>8. CASE CheckDest(t)
    <2>1. /\ packet[t] \in Packets /\ from[t] \in Conns
          /\ Interface[from[t]] = t /\ at[t] \in remaining[t]
      BY <1>8 DEF CheckDest, Busy, Working
    <2>2. packet[t].dest \in Addresses
      BY <1>8, <2>1, PacketsAssumption DEF CheckDest, Busy, Working, ToAll
    <2>3. CASE Offer(t, at[t], Accepted(t, at[t], {packet[t].dest}))
      BY <1>7, <1>8, <2>2, <2>3 DEF CheckDest
    <2>4. CASE /\ pc' = [pc EXCEPT ![t] = "list"]
               /\ UNCHANGED <<remaining, at, priority>>
      BY <1>8, <2>1, <2>4 DEF CheckDest, Working, TypeOK
    <2> QED
      BY <1>8, <2>3, <2>4 DEF CheckDest
  <1>9. CASE ListAddresses(t)
    <2>1. Live(at[t]) \in SUBSET Addresses
      BY DEF Live
    <2> QED
      BY <1>7, <1>9, <2>1 DEF ListAddresses
  <1>10. CASE Push(t)
    BY <1>2, <1>10 DEF Push, Busy, Working
  <1>11. CASE Done(t)
    BY <1>11 DEF Done, Working, TypeOK
  <1>12. CASE Lock(t)
    BY <1>12 DEF Lock, Busy, Working, TypeOK
  <1> QED
    BY <1>3, <1>4, <1>5, <1>6, <1>8, <1>9, <1>10, <1>11, <1>12 DEF Step

\* Time passing, and nothing at all, keep both.
LEMMA TickKeeps ==
    ASSUME TypeOK, Busy, Tick \/ UNCHANGED vars
    PROVE  TypeOK' /\ Busy'
  <1>1. CASE Tick
    <2>1. clock' \in Time
      BY <1>1, TimeAssumption DEF Tick, TypeOK, Time
    <2> QED
      BY <1>1, <2>1 DEF Tick, handling, TypeOK, Busy, Working, ToAll
  <1>2. CASE UNCHANGED vars
    BY <1>2 DEF vars, TypeOK, Busy, Working, ToAll
  <1> QED
    BY <1>1, <1>2

LEMMA InitTypes ==
    ASSUME Init PROVE TypeOK /\ Busy
  <1>1. 0 \in Time /\ Absent \in Time \cup {Absent}
    BY TimeAssumption DEF Time
  <1>2. seen \in [Conns -> [Addresses -> Time \cup {Absent}]]
    BY <1>1 DEF Init
  <1>3. [c \in Conns |-> <<>>] \in [Conns -> Seq(Int)]
    OBVIOUS
  <1>4. received \in 0 .. MaxReceived
    BY TimeAssumption DEF Init
  <1>5. TypeOK
    BY <1>1, <1>2, <1>3, <1>4, ConnsAssumption DEF Init, TypeOK
  <1>6. Busy
    BY DEF Init, Busy, Working
  <1> QED
    BY <1>5, <1>6

(***************************************************************************)
(* Every state of a behaviour is well-typed: the connection a thread sends *)
(* on is one of the pool's, and a time in an address pool is never a time  *)
(* to come.                                                                *)
(***************************************************************************)
THEOREM TypeCorrect == Spec => []TypeOK
  <1>1. TypeOK /\ Busy /\ [Next]_vars => TypeOK' /\ Busy'
    BY TickKeeps, TypesKept, BusyKept DEF Next
  <1> QED
    BY <1>1, InitTypes, PTL DEF Spec

-----------------------------------------------------------------------------
(* What was heard on a connection *)

\* Only a receive thread that adds a source changes what was heard.
LEMMA HeardByAdding ==
    ASSUME NEW t \in Threads, Step(t)
    PROVE  clock' = clock /\ (AddAddress(t) \/ heard' = heard)
  BY DEF Step, Receive, Join, AddAddress, Lock, CheckSource, CheckDest,
     ListAddresses, Push, Done

\* Once a thread has added the source, nothing is added on the connection of
\* its packet: the interface of that connection has no other thread.
LEMMA HeardStays ==
    ASSUME TypeOK, Busy, NEW t \in Threads, Step(t),
           NEW u \in Threads, pc[u] \in Added
    PROVE  heard'[from[u]] = heard[from[u]]
  <1>1. CASE heard' = heard
    BY <1>1
  <1>2. CASE AddAddress(t)
    <2>1. pc[t] = "add" /\ u # t
      BY <1>2 DEF AddAddress, Added, Sending
    <2>2. /\ from[t] \in Conns /\ Interface[from[t]] = t
          /\ from[u] \in Conns /\ Interface[from[u]] = u
      BY <2>1 DEF Busy, Working, Added, Sending
    <2>3. from[u] # from[t]
      BY <2>1, <2>2
    <2> QED
      BY <1>2, <2>2, <2>3 DEF AddAddress, TypeOK
  <1> QED
    BY <1>1, <1>2, HeardByAdding

\* A thread that is past the adding of a source just did it, or it has had
\* the same packet in hand since.
LEMMA StillAdded ==
    ASSUME TypeOK, NEW t \in Threads, Step(t), pc'[t] \in Added
    PROVE  \/ AddAddress(t)
           \/ pc[t] \in Added /\ UNCHANGED handling
  <1> USE DEF Added, Sending
  <1>1. ASSUME NEW c \in Conns, NEW p \in Packets, Receive(t, c, p)
        PROVE  FALSE
    BY <1>1 DEF Receive, TypeOK
  <1>2. ~Join(t)
    BY DEF Join, TypeOK
  <1>3. ~Done(t)
    BY DEF Done, TypeOK
  <1> QED
    BY <1>1, <1>2, <1>3
    DEF Step, Lock, CheckSource, CheckDest, ListAddresses, Push

\* A thread that sends just took the lock, or it was sending before.
LEMMA StillSending ==
    ASSUME TypeOK, NEW t \in Threads, Step(t), pc'[t] \in Sending
    PROVE  \/ Lock(t)
           \/ pc[t] \in Sending /\ UNCHANGED handling
  <1> USE DEF Added, Sending
  <1>1. ~AddAddress(t)
    BY DEF AddAddress, TypeOK
  <1>2. CASE pc[t] = "lock"
    BY <1>2 DEF Step, Receive, Join, AddAddress, CheckSource, CheckDest,
                ListAddresses, Push, Done
  <1>3. CASE pc[t] # "lock"
    BY <1>1, <1>3, StillAdded
  <1> QED
    BY <1>2, <1>3

\* What was heard stays heard, at that time or later.
LEMMA HeardGrows ==
    ASSUME TypeOK, Busy, Entries, [Next]_vars,
           NEW c \in Conns, NEW a \in Addresses, heard[c][a] # Absent
    PROVE  heard'[c][a] # Absent /\ heard'[c][a] >= heard[c][a]
  <1>1. heard[c][a] \in Int /\ clock \in Nat /\ heard[c][a] <= clock
    BY DEF TypeOK, Entries, Time, Absent
  <1>2. CASE heard' = heard
    BY <1>1, <1>2
  <1>3. ASSUME NEW t \in Threads, AddAddress(t)
        PROVE  heard'[c][a] \in {clock, heard[c][a]}
    BY <1>3 DEF AddAddress, TypeOK
  <1>4. heard' = heard \/ \E t \in Threads : AddAddress(t)
    BY HeardByAdding DEF Next, Tick, vars
  <1> QED
    BY <1>1, <1>2, <1>3, <1>4 DEF Absent

LEMMA EntriesKept ==
    ASSUME TypeOK, Busy, Entries, [Next]_vars
    PROVE  Entries'
  <1>0. \A c \in Conns, a \in Addresses :
            /\ heard[c][a] \in Int
            /\ seen[c][a] \in Time \cup {Absent}
    BY DEF TypeOK, Time, Absent
  <1>1. CASE UNCHANGED <<clock, heard, seen>>
    BY <1>1 DEF Entries
  <1>2. CASE Tick
    <2>1. clock \in Int /\ clock' = clock + 1 /\ UNCHANGED <<heard, seen>>
      BY <1>2 DEF Tick, TypeOK, Time
    <2> QED
      BY <1>0, <2>1, TimeAssumption DEF Entries
  <1>3. ASSUME NEW t \in Threads, AddAddress(t) PROVE Entries'
    <2>1. from[t] \in Conns /\ packet[t].source \in Addresses
      BY <1>3, PacketsAssumption DEF AddAddress, Busy, Working
    <2>2. clock \in Nat /\ clock' = clock
      BY <1>3 DEF AddAddress, TypeOK, Time
    <2>3. ASSUME NEW c \in Conns, NEW a \in Addresses
          PROVE  \/ seen'[c][a] = clock /\ heard'[c][a] = clock
                 \/ seen'[c][a] = seen[c][a] /\ heard'[c][a] = heard[c][a]
      BY <1>3, <2>1 DEF AddAddress, TypeOK
    <2> QED
      BY <2>2, <2>3 DEF Entries, Absent
  <1>4. ASSUME NEW t \in Threads, NEW c \in Conns, CheckSource(t, c)
        PROVE  Entries'
    <2>1. packet[t].source \in Addresses
      BY <1>4, PacketsAssumption DEF CheckSource, Busy, Working
    <2> QED
      BY <1>4, <2>1, EraseKeeps DEF CheckSource
  <1>5. ASSUME NEW t \in Threads, CheckDest(t) PROVE Entries'
    <2>1. at[t] \in Conns /\ packet[t].dest \in Addresses
      BY <1>5, PacketsAssumption
      DEF CheckDest, Busy, Working, ToAll, TypeOK
    <2> QED
      BY <1>5, <2>1, EraseKeeps DEF CheckDest
  <1>6. ASSUME NEW t \in Threads, ListAddresses(t) PROVE Entries'
    <2>1. at[t] \in Conns
      BY <1>6 DEF ListAddresses, Busy, Working, TypeOK
    <2> QED
      BY <1>6, <2>1, EraseKeeps DEF ListAddresses
  <1>7. \/ UNCHANGED <<clock, heard, seen>> \/ Tick
        \/ \E t \in Threads :
               \/ AddAddress(t) \/ CheckDest(t) \/ ListAddresses(t)
               \/ \E c \in Conns : CheckSource(t, c)
    BY DEF Next, vars, Step, Receive, Join, Lock, Push, Done
  <1> QED
    BY <1>1, <1>2, <1>3, <1>4, <1>5, <1>6, <1>7

LEMMA NewestKept ==
    ASSUME TypeOK, Busy, Entries, Newest, [Next]_vars
    PROVE  Newest'
  <1>1. CASE Tick \/ UNCHANGED vars
    BY <1>1 DEF Tick, vars, handling, Newest
  <1>2. ASSUME NEW t \in Threads, Step(t) PROVE Newest'
    <2> SUFFICES ASSUME NEW u \in Threads, pc'[u] \in Added
                 PROVE  /\ heard'[from'[u]][packet'[u].source] # Absent
                        /\ \A a \in Addresses : heard'[from'[u]][a] <=
                               heard'[from'[u]][packet'[u].source]
      BY DEF Newest
    <2>1. CASE /\ pc[u] \in Added
               /\ from'[u] = from[u] /\ packet'[u] = packet[u]
      BY <1>2, <2>1, HeardStays DEF Newest
    <2>2. CASE u = t /\ AddAddress(t)
      <3>1. from[t] \in Conns /\ packet[t].source \in Addresses
        BY <2>2, PacketsAssumption DEF AddAddress, Busy, Working
      <3>2. /\ heard'[from[t]][packet[t].source] = clock
            /\ \A a \in Addresses :
                   heard'[from[t]][a] \in {clock, heard[from[t]][a]}
        BY <2>2, <3>1 DEF AddAddress, TypeOK
      <3>3. clock \in Nat /\ \A a \in Addresses : heard[from[t]][a] <= clock
        BY <3>1 DEF Entries, TypeOK, Time
      <3> QED
        BY <2>2, <3>2, <3>3 DEF AddAddress, handling, Absent
    <2>3. CASE u # t
      BY <1>2, <2>1, <2>3, OthersStay DEF Same
    <2> QED
      BY <1>2, <2>1, <2>2, <2>3, StillAdded DEF handling
  <1> QED
    BY <1>1, <1>2 DEF Next

-----------------------------------------------------------------------------
(* No echo *)

\* A thread that finds an address on the connection of its packet, when the
\* source has expired there, would have heard it after the source.
LEMMA NothingLeft ==
    ASSUME TypeOK, Busy, Entries, Newest, Outdated, NEW t \in Threads,
           pc[t] \in {"dest", "list"}, at[t] = from[t]
    PROVE  Live(at[t]) = {}
  <1>1. from[t] \in Conns /\ packet[t].source \in Addresses
    BY PacketsAssumption DEF Busy, Working
  <1>2. clock - heard[from[t]][packet[t].source] > Timeout
    BY DEF Outdated
  <1>3. \A a \in Addresses :
            heard[from[t]][a] <= heard[from[t]][packet[t].source]
    BY DEF Newest, Added, Sending
  <1>4. clock \in Int /\ \A a \in Addresses : heard[from[t]][a] \in Int
    BY <1>1 DEF TypeOK, Time, Absent
  <1>5. \A a \in Addresses : clock - heard[from[t]][a] > Timeout
    BY <1>1, <1>2, <1>3, <1>4, TimeAssumption
  <1>6. \A a \in Addresses : ~Reachable(from[t], a)
    BY <1>1, <1>4, <1>5, ReachableIfHeard, TimeAssumption
  <1> QED
    BY <1>6 DEF Live

LEMMA OutdatedKept ==
    ASSUME TypeOK, Busy, Entries, Newest, Outdated, [Next]_vars
    PROVE  Outdated'
  <1>1. CASE UNCHANGED vars
    BY <1>1 DEF vars, Outdated
  <1>2. CASE Tick
    <2>1. clock \in Int /\ clock' = clock + 1
      BY <1>2 DEF Tick, TypeOK, Time
    <2>2. \A t \in Threads : pc[t] \in {"dest", "list"} =>
              heard[from[t]][packet[t].source] \in Int
      <3>1. \A t \in Threads : pc[t] # "idle" =>
                from[t] \in Conns /\ packet[t].source \in Addresses
        BY PacketsAssumption DEF Busy, Working
      <3> QED
        BY <3>1 DEF TypeOK, Time, Absent
    <2> QED
      BY <1>2, <2>1, <2>2, TimeAssumption DEF Tick, handling, Outdated
  <1>3. ASSUME NEW t \in Threads, Step(t) PROVE Outdated'
    <2> DEFINE Out(u) ==
            /\ pc[u] \in {"dest", "list"} /\ at[u] = from[u] =>
                   clock - heard[from[u]][packet[u].source] > Timeout
            /\ pc[u] = "push" => at[u] # from[u]
    <2>1. clock' = clock
      BY <1>3, HeardByAdding
    <2>2. ASSUME NEW u \in Threads, u # t PROVE Out(u)'
      <3>1. Same(u) /\ Out(u)
        BY <1>3, <2>2, OthersStay DEF Outdated
      <3>2. CASE pc[u] \in Sending
        BY <1>3, <2>1, <3>1, <3>2, HeardStays DEF Same, Added
      <3>3. CASE pc[u] \notin Sending
        BY <3>1, <3>3 DEF Same, Sending
      <3> QED
        BY <3>2, <3>3
    <2> SUFFICES Out(t)'
      BY <2>2 DEF Outdated
    <2>3. CASE pc'[t] \notin {"dest", "list", "push"}
      BY <2>3
    <2>4. CASE Lock(t)
      BY <2>3, <2>4 DEF Lock, TypeOK
    <2>5. ASSUME NEW c \in Conns, CheckSource(t, c) PROVE Out(t)'
      <3>1. from[t] \in Conns /\ packet[t].source \in Addresses
        BY <2>5, PacketsAssumption DEF CheckSource, Busy, Working
      <3>2. CASE Leave(t, c)
        BY <2>3, <3>2, LeaveTypes
      <3>3. CASE /\ ~Reachable(c, packet[t].source)
                 /\ pc'[t] \in {"dest", "list"} /\ at'[t] = c
        <4>1. heard[from[t]][packet[t].source] # Absent
          BY <2>5 DEF CheckSource, Newest, Added, Sending
        <4>2. clock \in Int /\ heard[from[t]][packet[t].source] \in Int
          BY <3>1 DEF TypeOK, Time, Absent
        <4>3. c = from[t] =>
                  clock - heard[from[t]][packet[t].source] > Timeout
          BY <3>1, <3>3, <4>1, <4>2, ReachableIfHeard, TimeAssumption
        <4>4. heard' = heard /\ from' = from /\ packet' = packet
          BY <2>5 DEF CheckSource, handling
        <4> QED
          BY <2>1, <3>3, <4>3, <4>4
      <3> QED
        BY <2>5, <3>2, <3>3 DEF CheckSource, TypeOK
    <2>6. ASSUME pc[t] \in {"dest", "list"}, NEW S \in SUBSET Live(at[t]),
                 Offer(t, at[t], Accepted(t, at[t], S)), UNCHANGED handling
          PROVE  Out(t)'
      <3>1. CASE at[t] = from[t]
        <4>1. Accepted(t, at[t], S) = {}
          BY <2>6, <3>1, NothingLeft DEF Accepted, Relevant
        <4>2. Leave(t, at[t])
          BY <2>6, <4>1 DEF Offer
        <4> QED
          BY <2>3, <4>2, LeaveTypes
      <3>2. CASE at[t] # from[t]
        <4>1. packet[t] \in Packets /\ S \in SUBSET Addresses
          BY <2>6 DEF Busy, Working, Live
        <4>2. \/ Leave(t, at[t])
              \/ pc' = [pc EXCEPT ![t] = "push"] /\ at' = at
          BY <2>6, <4>1, OfferPushes
        <4>3. CASE Leave(t, at[t])
          BY <2>3, <4>3, LeaveTypes
        <4>4. CASE pc' = [pc EXCEPT ![t] = "push"] /\ at' = at
          BY <2>6, <3>2, <4>4 DEF handling, TypeOK
        <4> QED
          BY <4>2, <4>3, <4>4
      <3> QED
        BY <3>1, <3>2
    <2>7. CASE CheckDest(t)
      <3>1. packet[t].dest \in Addresses
        BY <2>7, PacketsAssumption DEF CheckDest, Busy, Working, ToAll
      <3>2. CASE Reachable(at[t], packet[t].dest)
        BY <2>6, <2>7, <3>1, <3>2 DEF CheckDest, Live
      <3>3. CASE ~Reachable(at[t], packet[t].dest)
        <4>1. /\ pc' = [pc EXCEPT ![t] = "list"] /\ pc[t] = "dest"
              /\ UNCHANGED <<at, heard, handling>>
          BY <2>7, <3>3 DEF CheckDest
        <4> QED
          BY <2>1, <4>1 DEF Outdated, handling, TypeOK
      <3> QED
        BY <3>2, <3>3
    <2>8. CASE ListAddresses(t)
      BY <2>6, <2>8 DEF ListAddresses
    <2>9. CASE Push(t)
      BY <2>3, <2>9, LeaveTypes DEF Push
    <2> HIDE DEF Out
    <2> QED
      BY <1>3, <2>3, <2>4, <2>5, <2>7, <2>8, <2>9, StillSending
      DEF Step, Receive, Join, AddAddress, Done, TypeOK
  <1> QED
    BY <1>1, <1>2, <1>3 DEF Next

LEMMA UntouchedKept ==
    ASSUME TypeOK, Busy, Untouched, [Next]_vars
    PROVE  Untouched'
  <1>1. CASE Tick \/ UNCHANGED vars
    BY <1>1 DEF Tick, vars, handling, Untouched
  <1>2. ASSUME NEW t \in Threads, Step(t) PROVE Untouched'
    <2> DEFINE Free(u) ==
            \A c \in Conns :
                pc[u] \notin Sending \/ c \in remaining[u] => got[u][c] = <<>>
    <2>1. ASSUME NEW u \in Threads, u # t PROVE Free(u)'
      BY <1>2, <2>1, OthersStay DEF Same, Untouched
    <2>2. Free(t)
      BY DEF Untouched
    <2> SUFFICES Free(t)'
      BY <2>1 DEF Untouched
    <2>3. ASSUME got' = got, NEW c, pc[t] \in Sending, Leave(t, c)
          PROVE  Free(t)'
      BY <2>2, <2>3, LeaveTypes DEF Sending
    <2>4. ASSUME got' = got, remaining' = remaining, pc'[t] \in Sending,
                 pc[t] \in Sending
          PROVE  Free(t)'
      BY <2>2, <2>4
    <2>5. ASSUME NEW c \in Conns, NEW p \in Packets, Receive(t, c, p)
          PROVE  Free(t)'
      BY <2>2, <2>5 DEF Receive, Sending
    <2>6. CASE Join(t)
      BY <2>2, <2>6 DEF Join, Sending
    <2>7. CASE AddAddress(t)
      BY <2>2, <2>7 DEF AddAddress, Sending
    <2>8. ASSUME NEW c \in Conns, CheckSource(t, c) PROVE Free(t)'
      <3>1. pc[t] \in Sending /\ got' = got
        BY <2>8 DEF CheckSource, Sending
      <3>2. CASE Leave(t, c)
        BY <2>3, <3>1, <3>2
      <3>3. CASE pc'[t] \in Sending /\ remaining' = remaining
        BY <2>4, <3>1, <3>3
      <3> QED
        BY <2>8, <3>2, <3>3 DEF CheckSource, Sending, TypeOK
    <2>9. ASSUME got' = got, pc[t] \in {"dest", "list"},
                 NEW S \in SUBSET Addresses,
                 Offer(t, at[t], Accepted(t, at[t], S))
          PROVE  Free(t)'
      <3>1. packet[t] \in Packets /\ pc[t] \in Sending
        BY <2>9 DEF Busy, Working, Sending
      <3>2. CASE Leave(t, at[t])
        BY <2>3, <2>9, <3>1, <3>2
      <3>3. CASE pc' = [pc EXCEPT ![t] = "push"] /\ remaining' = remaining
        <4>1. pc'[t] \in Sending
          BY <3>3 DEF Sending, TypeOK
        <4> QED
          BY <2>4, <2>9, <3>1, <3>3, <4>1
      <3> QED
        BY <2>9, <3>1, <3>2, <3>3, OfferPushes
    <2>10. CASE CheckDest(t)
      <3>1. packet[t].dest \in Addresses
        BY <2>10, PacketsAssumption DEF CheckDest, Busy, Working, ToAll
      <3>2. CASE Reachable(at[t], packet[t].dest)
        BY <2>9, <2>10, <3>1, <3>2 DEF CheckDest
      <3>3. CASE ~Reachable(at[t], packet[t].dest)
        <4>1. /\ got' = got /\ remaining' = remaining
              /\ pc'[t] \in Sending /\ pc[t] \in Sending
          BY <2>10, <3>3 DEF CheckDest, TypeOK, Sending
        <4> QED
          BY <2>4, <4>1
      <3> QED
        BY <3>2, <3>3
    <2>11. CASE ListAddresses(t)
      <3>1. Live(at[t]) \in SUBSET Addresses
        BY DEF Live
      <3> QED
        BY <2>9, <2>11, <3>1 DEF ListAddresses
    <2>12. CASE Push(t)
      <3>1. at[t] \in Conns /\ pc[t] \in Sending
        BY <2>12 DEF Push, Busy, Working, TypeOK, Sending
      <3>2. pc'[t] \in Sending /\ remaining'[t] = remaining[t] \ {at[t]}
        BY <2>12, LeaveTypes DEF Push, Sending
      <3>3. \A c \in Conns \ {at[t]} : got'[t][c] = got[t][c]
        BY <2>12, <3>1 DEF Push, TypeOK
      <3> QED
        BY <2>2, <3>2, <3>3
    <2>13. CASE Done(t)
      BY <2>13 DEF Done, TypeOK
    <2>14. CASE Lock(t)
      BY <2>2, <2>14 DEF Lock, Sending
    <2> HIDE DEF Free
    <2> QED
      BY <1>2, <2>5, <2>6, <2>7, <2>8, <2>10, <2>11, <2>12, <2>13, <2>14
      DEF Step
  <1> QED
    BY <1>1, <1>2 DEF Next

LEMMA NoEchoKept ==
    ASSUME TypeOK, Busy, Outdated, Untouched, NoEcho, [Next]_vars
    PROVE  NoEcho'
  <1>1. CASE Tick \/ UNCHANGED vars
    BY <1>1 DEF Tick, vars, handling, NoEcho
  <1>2. ASSUME NEW t \in Threads, Step(t) PROVE NoEcho'
    <2>1. ASSUME NEW u \in Threads, u # t, pc'[u] # "idle"
          PROVE  got'[u][from'[u]] = <<>>
      BY <1>2, <2>1, OthersStay DEF Same, NoEcho
    <2> SUFFICES ASSUME pc'[t] # "idle" PROVE got'[t][from'[t]] = <<>>
      BY <2>1 DEF NoEcho
    <2>2. ASSUME NEW c \in Conns, NEW p \in Packets, Receive(t, c, p)
          PROVE  got'[t][from'[t]] = <<>>
      <3>1. got'[t][c] = <<>> /\ from'[t] = c
        BY <2>2 DEF Receive, Untouched, Sending, TypeOK
      <3> QED
        BY <3>1
    <2>3. CASE pc[t] # "idle" /\ got' = got /\ from' = from
      BY <2>3 DEF NoEcho
    <2>4. CASE Push(t)
      <3>1. at[t] # from[t] /\ from[t] \in Conns
        BY <2>4 DEF Push, Outdated, Busy, Working
      <3>2. got'[t][from[t]] = got[t][from[t]] /\ from' = from
        BY <2>4, <3>1 DEF Push, handling, TypeOK
      <3> QED
        BY <2>4, <3>2 DEF Push, NoEcho
    <2>5. CASE Done(t)
      BY <2>5 DEF Done, TypeOK
    <2> QED
      BY <1>2, <2>2, <2>3, <2>4, <2>5
      DEF Step, Join, AddAddress, Lock, CheckSource, CheckDest,
          ListAddresses, handling
  <1> QED
    BY <1>1, <1>2 DEF Next

LEMMA InitHistory ==
    ASSUME Init PROVE Entries /\ Newest /\ Outdated /\ Untouched /\ NoEcho
  <1>1. \A c \in Conns, a \in Addresses :
            seen[c][a] \in {0, Absent} /\ heard[c][a] = seen[c][a]
    BY DEF Init
  <1>2. Entries
    BY <1>1 DEF Init, Entries, Absent
  <1>3. Newest /\ Outdated /\ NoEcho
    BY DEF Init, Newest, Outdated, NoEcho, Added, Sending
  <1>4. Untouched
    BY DEF Init, Untouched
  <1> QED
    BY <1>2, <1>3, <1>4

\* The part of the invariant that rules out an echo.
Safe == TypeOK /\ Busy /\ Entries /\ Newest /\ Outdated /\ Untouched

LEMMA SafeKept == Safe /\ [Next]_vars => Safe'
  <1>1. TypeOK /\ Busy /\ [Next]_vars => TypeOK' /\ Busy'
    BY TickKeeps, TypesKept, BusyKept DEF Next
  <1> QED
    BY <1>1, EntriesKept, NewestKept, OutdatedKept, UntouchedKept DEF Safe

(***************************************************************************)
(* No packet goes back out on the connection it came in on, however long   *)
(* its thread is held up between two critical sections of an address pool, *)
(* and whatever the other interfaces hear meanwhile (Connection.cpp:335).  *)
(***************************************************************************)
THEOREM NeverEchoed == Spec => []NoEcho
  <1>1. Init => Safe /\ NoEcho
    BY InitTypes, InitHistory DEF Safe
  <1>2. Safe /\ NoEcho /\ [Next]_vars => Safe' /\ NoEcho'
    BY SafeKept, NoEchoKept DEF Safe
  <1> QED
    BY <1>1, <1>2, PTL DEF Spec

-----------------------------------------------------------------------------
(* Every push is justified *)

\* A priority that is meant stays so: what was heard may only be newer.
LEMMA MeantStays ==
    ASSUME TypeOK, Busy, Entries, [Next]_vars, NEW t \in Threads,
           NEW c \in Conns, NEW a \in Addresses, NEW n \in Int,
           packet'[t] = packet[t], started'[t] = started[t],
           Meant(t, c, a, n)
    PROVE  Meant(t, c, a, n)'
  <1>1. /\ a \in Relevant(t, c, Addresses)
        /\ heard[c][a] # Absent /\ started[t] - heard[c][a] <= Timeout
        /\ filter[packet[t], Asked(t, c, a)] = n
    BY DEF Meant
  <1>2. heard'[c][a] # Absent /\ heard'[c][a] >= heard[c][a]
    BY <1>1, HeardGrows
  <1>3. TypeOK'
    BY TickKeeps, TypesKept DEF Next
  <1>4. /\ heard[c][a] \in Int /\ heard'[c][a] \in Int
        /\ started[t] \in Int
    BY <1>3 DEF TypeOK, Time, Absent
  <1>5. started'[t] - heard'[c][a] <= Timeout
    <2>1. \A s, old, new, most \in Int :
              s - old <= most /\ new >= old => s - new <= most
      OBVIOUS
    <2>2. Timeout \in Int
      BY TimeAssumption
    <2>3. started[t] - heard'[c][a] <= Timeout
      BY <1>1, <1>2, <1>4, <2>1, <2>2, Zenon
    <2> QED
      BY <2>3, Zenon
  <1>6. a \in Relevant(t, c, Addresses)'
    BY <1>1 DEF Relevant, ToAll
  <1>7. Asked(t, c, a)' = Asked(t, c, a)
    BY DEF Asked, ToAll, ToSystem
  <1>8. filter'[packet'[t], Asked(t, c, a)'] = n
    BY <1>1, <1>7, FilterStays, Zenon
  <1> QED
    BY <1>2, <1>5, <1>6, <1>8, Zenon DEF Meant

\* What an offer pushes with is meant.
LEMMA OfferedIsMeant ==
    ASSUME TypeOK, Entries, Prepared, NEW t \in Threads,
           packet[t] \in Packets, NEW c \in Conns,
           NEW S \in SUBSET Live(c), NEW n \in Accepted(t, c, S)
    PROVE  \E a \in Addresses : Meant(t, c, a, n)
  <1>1. S \in SUBSET Addresses
    BY DEF Live
  <1>2. PICK a \in Relevant(t, c, S) : n = filter[packet[t], Asked(t, c, a)]
    BY <1>1, AcceptedPriorities, Zenon
  <1>3. a \in Live(c) /\ a \in Addresses
    BY <1>1, <1>2 DEF Relevant
  <1>4. a \in Relevant(t, c, Addresses)
    BY <1>2, <1>3 DEF Relevant
  <1>5. heard[c][a] # Absent /\ clock - heard[c][a] <= Timeout
    BY <1>3, ReachableIfHeard DEF Live
  <1>6. /\ started[t] \in Int /\ heard[c][a] \in Int /\ clock \in Int
        /\ started[t] <= clock
    BY <1>3 DEF TypeOK, Prepared, Time, Absent
  <1>7. started[t] - heard[c][a] <= Timeout
    BY <1>5, <1>6, TimeAssumption
  <1> QED
    BY <1>2, <1>3, <1>4, <1>5, <1>7, Zenon DEF Meant

LEMMA PreparedKept ==
    ASSUME TypeOK, Busy, Entries, Prepared, [Next]_vars
    PROVE  Prepared'
  <1> DEFINE Ready(u) ==
          /\ started[u] <= clock
          /\ pc[u] = "push" =>
                 \E c \in Conns, a \in Addresses, n \in Int :
                     at[u] = c /\ priority[u] = n /\ Meant(u, c, a, n)
  <1>1. ASSUME NEW u \in Threads, clock' >= clock, Same(u) PROVE Ready(u)'
    <2>1. started'[u] <= clock'
      <3>1. /\ started[u] \in Int /\ started[u] <= clock
            /\ clock \in Int /\ clock' \in Int
        <4>1. TypeOK'
          BY TickKeeps, TypesKept DEF Next
        <4> QED
          BY <4>1 DEF TypeOK, Time, Prepared
      <3> QED
        BY <1>1, <3>1 DEF Same
    <2>2. ASSUME pc'[u] = "push"
          PROVE  \E c \in Conns, a \in Addresses, n \in Int :
                     at'[u] = c /\ priority'[u] = n /\ Meant(u, c, a, n)'
      <3>1. PICK c \in Conns, a \in Addresses, n \in Int :
                at[u] = c /\ priority[u] = n /\ Meant(u, c, a, n)
        BY <1>1, <2>2 DEF Same, Prepared
      <3>2. Meant(u, c, a, n)'
        BY <1>1, <3>1, MeantStays DEF Same
      <3> QED
        BY <1>1, <3>1, <3>2 DEF Same
    <2> QED
      BY <2>1, <2>2
  <1>2. CASE Tick \/ UNCHANGED vars
    <2>1. clock \in Int /\ clock' >= clock /\ \A u \in Threads : Same(u)
      BY <1>2 DEF Tick, vars, handling, Same, TypeOK, Time
    <2> QED
      BY <1>1, <2>1 DEF Prepared
  <1>3. ASSUME NEW t \in Threads, Step(t) PROVE Prepared'
    <2>1. clock' = clock /\ clock \in Nat /\ started[t] <= clock
      BY <1>3, HeardByAdding DEF TypeOK, Time, Prepared
    <2>2. \A u \in Threads \ {t} : Ready(u)'
      BY <1>1, <1>3, <2>1, OthersStay
    <2>3. started'[t] <= clock'
      BY <1>3, <2>1 DEF Step, Receive, Join, AddAddress, Lock, CheckSource,
         CheckDest, ListAddresses, Push, Done, handling, TypeOK
    <2> SUFFICES Ready(t)'
      BY <2>2 DEF Prepared
    <2>4. ASSUME NEW S \in SUBSET Live(at[t]), pc[t] \in {"dest", "list"},
                 Offer(t, at[t], Accepted(t, at[t], S)), UNCHANGED handling
          PROVE  Ready(t)'
      <3>1. packet[t] \in Packets /\ at[t] \in Conns
        BY <2>4 DEF Busy, Working, TypeOK
      <3>2. S \subseteq Addresses
        BY DEF Live
      <3>3. CASE Leave(t, at[t])
        BY <2>3, <3>3, LeaveTypes
      <3>4. ASSUME pc' = [pc EXCEPT ![t] = "push"], at' = at,
                   NEW n \in Accepted(t, at[t], S), n \in Int,
                   priority' = [priority EXCEPT ![t] = n]
            PROVE  Ready(t)'
        <4>1. PICK a \in Addresses : Meant(t, at[t], a, n)
          BY <2>4, <3>1, OfferedIsMeant
        <4>2. PICK c \in Conns : c = at[t]
          BY <3>1
        <4>3. Meant(t, c, a, n)
          BY <4>1, <4>2
        <4>4. Meant(t, c, a, n)'
          BY <2>4, <3>4, <4>3, MeantStays DEF handling
        <4>5. at'[t] = c /\ priority'[t] = n
          BY <3>4, <4>2 DEF TypeOK
        <4> QED
          BY <2>3, <3>4, <4>4, <4>5
      <3> QED
        BY <2>4, <3>1, <3>2, <3>3, <3>4, OfferPushes
    <2>5. CASE CheckDest(t)
      <3>1. packet[t].dest \in Addresses
        BY <2>5, PacketsAssumption DEF CheckDest, Busy, Working, ToAll
      <3>2. CASE Reachable(at[t], packet[t].dest)
        BY <2>4, <2>5, <3>1, <3>2 DEF CheckDest, Live
      <3>3. CASE ~Reachable(at[t], packet[t].dest)
        BY <2>3, <2>5, <3>3 DEF CheckDest, TypeOK
      <3> QED
        BY <3>2, <3>3
    <2>6. CASE ListAddresses(t)
      BY <2>4, <2>6 DEF ListAddresses
    <2>7. CASE pc'[t] # "push"
      BY <2>3, <2>7
    <2> HIDE DEF Ready
    <2> QED
      BY <1>3, <2>5, <2>6, <2>7
      DEF Step, Receive, Join, AddAddress, Lock, CheckSource, Push, Leave,
          Done, TypeOK
  <1> QED
    BY <1>2, <1>3 DEF Next

LEMMA PushedKept ==
    ASSUME TypeOK, Busy, Entries, Untouched, Prepared, Pushed, [Next]_vars
    PROVE  Pushed'
  <1> DEFINE Fine(u, c) ==
          \/ got[u][c] = <<>>
          \/ \E a \in Addresses, n \in Int :
                 got[u][c] = <<n>> /\ Meant(u, c, a, n)
  <1>1. ASSUME NEW u \in Threads, NEW c \in Conns, got'[u][c] = got[u][c],
               packet'[u] = packet[u], started'[u] = started[u]
        PROVE  Fine(u, c)'
    <2>1. CASE got[u][c] = <<>>
      BY <1>1, <2>1
    <2>2. CASE got[u][c] # <<>>
      <3>1. PICK a \in Addresses, n \in Int :
                got[u][c] = <<n>> /\ Meant(u, c, a, n)
        BY <2>2 DEF Pushed
      <3>2. Meant(u, c, a, n)'
        BY <1>1, <3>1, MeantStays
      <3> QED
        BY <1>1, <3>1, <3>2
    <2> QED
      BY <2>1, <2>2
  <1>2. CASE Tick \/ UNCHANGED vars
    <2>1. got' = got /\ packet' = packet /\ started' = started
      BY <1>2 DEF Tick, vars, handling
    <2> QED
      BY <1>1, <2>1 DEF Pushed
  <1>3. ASSUME NEW t \in Threads, Step(t) PROVE Pushed'
    <2> SUFFICES ASSUME NEW u \in Threads, NEW c \in Conns
                 PROVE  Fine(u, c)'
      BY DEF Pushed
    <2>1. CASE u # t
      BY <1>1, <1>3, <2>1, OthersStay DEF Same
    <2>2. CASE u = t /\ got' = got /\ UNCHANGED handling
      BY <1>1, <2>2 DEF handling
    <2>3. ASSUME u = t, NEW d \in Conns, NEW p \in Packets, Receive(t, d, p)
          PROVE  Fine(u, c)'
      BY <2>3 DEF Receive, Untouched, Sending
    <2>4. CASE u = t /\ Done(t)
      BY <2>4 DEF Done, TypeOK
    <2>5. CASE u = t /\ Push(t)
      <3>1. CASE c # at[t]
        BY <1>1, <2>5, <3>1 DEF Push, handling, TypeOK
      <3>2. CASE c = at[t]
        <4>1. got[t][c] = <<>>
          BY <2>5, <3>2 DEF Push, Busy, Working, Untouched
        <4>2. PICK a \in Addresses, n \in Int :
                  priority[t] = n /\ Meant(t, c, a, n)
          BY <2>5, <3>2 DEF Push, Prepared
        <4>3. got'[t][c] = <<n>>
          BY <2>5, <3>2, <4>1, <4>2 DEF Push, TypeOK
        <4>4. Meant(t, c, a, n)'
          BY <2>5, <4>2, MeantStays DEF Push, handling
        <4> QED
          BY <2>5, <4>3, <4>4
      <3> QED
        BY <3>1, <3>2
    <2> HIDE DEF Fine
    <2> QED
      BY <1>3, <2>1, <2>2, <2>3, <2>4, <2>5
      DEF Step, Join, AddAddress, Lock, CheckSource, CheckDest,
          ListAddresses
  <1> QED
    BY <1>2, <1>3 DEF Next

LEMMA PushedIsJustified ==
    ASSUME Pushed PROVE Justified
  <1> SUFFICES ASSUME NEW t \in Threads, NEW c \in Conns
               PROVE  /\ Len(got[t][c]) <= 1
                      /\ \A i \in 1 .. Len(got[t][c]) :
                             \E a \in Addresses : Meant(t, c, a, got[t][c][i])
    BY DEF Justified
  <1>1. CASE got[t][c] = <<>>
    BY <1>1
  <1>2. ASSUME NEW a \in Addresses, NEW n \in Int,
               got[t][c] = <<n>>, Meant(t, c, a, n)
        PROVE  /\ Len(got[t][c]) <= 1
               /\ \A i \in 1 .. Len(got[t][c]) :
                      \E b \in Addresses : Meant(t, c, b, got[t][c][i])
    <2>1. Len(got[t][c]) = 1 /\ got[t][c][1] = n
      BY <1>2
    <2> QED
      BY <1>2, <2>1
  <1> QED
    BY <1>1, <1>2 DEF Pushed

(***************************************************************************)
(* A connection gets a packet at most once, and only with a priority the   *)
(* filter gave it for the sake of an address it was meant for, which was   *)
(* heard there at the earliest one timeout before the packet came in,      *)
(* whatever happens between the looks at the address pool.                 *)
(***************************************************************************)
THEOREM AlwaysJustified == Spec => []Justified
  <1>1. Init => Safe /\ Prepared /\ Pushed
    <2>1. Init => Prepared /\ Pushed
      BY TimeAssumption DEF Init, Prepared, Pushed
    <2> QED
      BY <2>1, InitTypes, InitHistory DEF Safe
  <1>2. Safe /\ Prepared /\ Pushed /\ [Next]_vars =>
            Safe' /\ Prepared' /\ Pushed'
    BY SafeKept, PreparedKept, PushedKept DEF Safe
  <1> QED
    BY <1>1, <1>2, PushedIsJustified, PTL DEF Spec

-----------------------------------------------------------------------------
(* Nothing is lost *)

\* What the filter says of the packet of t for the sake of a.
Price(t, c, a) == filter[packet[t], Asked(t, c, a)]

\* The packet of t is to go to c for the sake of a.
Wanted(t, c, a) ==
    /\ heard[c][packet[t].source] = Absent
    /\ a \in Relevant(t, c, Addresses)
    /\ heard[c][a] # Absent
    /\ heard[c][a] < started[t]
    /\ clock - heard[c][a] <= Timeout
    /\ Price(t, c, a) # Reject

\* Only send_to_address_ looks for the very destination first.
Alone == \A t \in Threads : pc[t] = "dest" => ~ToSystem(t, at[t])

\* What is wanted was pushed by the time the loop has passed the connection,
\* and until then the push to come will do.
Served ==
    \A t \in Threads, c \in Conns, a \in Addresses :
        pc[t] \in Sending /\ Wanted(t, c, a) =>
            /\ c \in members \ remaining[t] =>
                   got[t][c] # <<>> /\ got[t][c][1] >= Price(t, c, a)
            /\ pc[t] = "push" /\ at[t] = c => priority[t] >= Price(t, c, a)

LEMMA ServedIsDelivered ==
    ASSUME Served PROVE Delivered
  BY DEF Served, Delivered, Wanted, Price, Relevant

\* What is wanted after a step was so before: nothing that is heard later is
\* older than the packet, and time only makes addresses expire.
LEMMA WantedBefore ==
    ASSUME TypeOK, Busy, Entries, Prepared, [Next]_vars, NEW t \in Threads,
           NEW c \in Conns, NEW a \in Addresses, packet[t] \in Packets,
           packet'[t] = packet[t], started'[t] = started[t],
           Wanted(t, c, a)'
    PROVE  Wanted(t, c, a) /\ Price(t, c, a)' = Price(t, c, a)
  <1>1. packet[t].source \in Addresses
    BY PacketsAssumption
  <1>2. /\ heard'[c][packet[t].source] = Absent
        /\ a \in Relevant(t, c, Addresses)'
        /\ heard'[c][a] # Absent /\ heard'[c][a] < started[t]
        /\ clock' - heard'[c][a] <= Timeout
        /\ Price(t, c, a)' # Reject
    BY DEF Wanted
  <1>3. heard[c][packet[t].source] = Absent
    BY <1>1, <1>2, HeardGrows
  <1>4. a \in Relevant(t, c, Addresses)
    BY <1>2 DEF Relevant, ToAll
  <1>5. Price(t, c, a)' = Price(t, c, a)
    <2>1. Asked(t, c, a)' = Asked(t, c, a)
      BY DEF Asked, ToAll, ToSystem
    <2> QED
      BY <2>1, FilterStays, Zenon DEF Price
  <1>6. /\ clock \in Int /\ clock' \in Int /\ clock' >= clock
        /\ started[t] \in Int /\ started[t] <= clock
        /\ heard[c][a] \in Int
    <2>1. clock \in Int /\ started[t] \in Int /\ heard[c][a] \in Int
      BY DEF TypeOK, Time, Absent
    <2>2. clock' = clock \/ clock' = clock + 1
      BY HeardByAdding DEF Next, Tick, vars
    <2> QED
      BY <2>1, <2>2 DEF Prepared
  <1>7. heard'[c][a] = heard[c][a]
    <2>1. ASSUME NEW u \in Threads, AddAddress(u)
          PROVE  heard'[c][a] \in {clock, heard[c][a]}
      BY <2>1 DEF AddAddress, TypeOK
    <2>2. heard' = heard \/ \E u \in Threads : AddAddress(u)
      BY HeardByAdding DEF Next, Tick, vars
    <2>3. heard'[c][a] # clock
      BY <1>2, <1>6
    <2> QED
      BY <2>1, <2>2, <2>3
  <1>8. clock - heard[c][a] <= Timeout
    BY <1>2, <1>6, <1>7, TimeAssumption
  <1> QED
    BY <1>2, <1>3, <1>4, <1>5, <1>7, <1>8 DEF Wanted

\* An offer is over for want of priorities, or pushes with the highest.
LEMMA OfferHighest ==
    ASSUME TypeOK, NEW t \in Threads, packet[t] \in Packets, NEW c,
           NEW S \in SUBSET Addresses, Offer(t, c, Accepted(t, c, S))
    PROVE  \/ Leave(t, c) /\ Accepted(t, c, S) = {}
           \/ /\ pc' = [pc EXCEPT ![t] = "push"]
              /\ UNCHANGED <<remaining, at>>
              /\ \A n \in Accepted(t, c, S) : n <= priority'[t]
  <1> DEFINE A == Accepted(t, c, S)
  <1>1. A \in SUBSET Int /\ \A n \in A : n <= MaxPriority
    BY AcceptedPriorities
  <1>2. CASE A = {}
    BY <1>2 DEF Offer
  <1>3. CASE A # {}
    <2> HIDE DEF A
    <2>1. \A n \in A : n <= Highest(A)
      BY <1>1, <1>3, HighestIsMax
    <2>2. /\ priority' = [priority EXCEPT ![t] = Highest(A)]
          /\ pc' = [pc EXCEPT ![t] = "push"]
          /\ UNCHANGED <<remaining, at>>
      BY <1>3 DEF Offer, A
    <2>3. priority'[t] = Highest(A)
      BY <2>2 DEF TypeOK
    <2> QED
      BY <2>1, <2>2, <2>3 DEF A
  <1> QED
    BY <1>2, <1>3

\* What is wanted is among the addresses the pool still has.
LEMMA WantedIsLive ==
    ASSUME TypeOK, Entries, NEW t \in Threads, NEW c \in Conns,
           NEW a \in Addresses, Wanted(t, c, a)
    PROVE  a \in Live(c)
  BY ReachableIfHeard DEF Wanted, Live

LEMMA AloneKept ==
    ASSUME TypeOK, Alone, [Next]_vars
    PROVE  Alone'
  <1>1. CASE Tick \/ UNCHANGED vars
    BY <1>1 DEF Tick, vars, handling, Alone, ToSystem, ToAll
  <1>2. ASSUME NEW t \in Threads, Step(t) PROVE Alone'
    <2>1. ASSUME NEW u \in Threads, u # t, pc'[u] = "dest"
          PROVE  ~ToSystem(u, at[u])'
      BY <1>2, <2>1, OthersStay DEF Same, Alone, ToSystem, ToAll
    <2> SUFFICES ASSUME pc'[t] = "dest" PROVE ~ToSystem(t, at[t])'
      BY <2>1 DEF Alone
    <2>2. PICK c \in Conns : CheckSource(t, c)
      BY <1>2 DEF Step, Receive, Join, AddAddress, Lock, CheckDest, Offer,
                  Leave, ListAddresses, Push, Done, TypeOK
    <2>3. ~ToSystem(t, c) /\ at'[t] = c /\ packet' = packet
      BY <2>2 DEF CheckSource, Leave, handling, TypeOK
    <2> QED
      BY <2>3 DEF ToSystem, ToAll
  <1> QED
    BY <1>1, <1>2 DEF Next

\* The part of the invariant about what is to be pushed.
Due(t) ==
    \A c \in Conns, a \in Addresses : Wanted(t, c, a) =>
        /\ c \in members \ remaining[t] =>
               got[t][c] # <<>> /\ got[t][c][1] >= Price(t, c, a)
        /\ pc[t] = "push" /\ at[t] = c => priority[t] >= Price(t, c, a)

\* A step that changes nothing Due speaks of.
LEMMA DueStays ==
    ASSUME TypeOK, Busy, Entries, Prepared, [Next]_vars, NEW t \in Threads,
           pc[t] \in Sending, Due(t),
           packet'[t] = packet[t], started'[t] = started[t],
           members' = members, remaining'[t] = remaining[t],
           got'[t] = got[t],
           \/ pc'[t] # "push"
           \/ pc'[t] = pc[t] /\ at'[t] = at[t] /\ priority'[t] = priority[t]
    PROVE  Due(t)'
  <1>1. packet[t] \in Packets
    BY DEF Busy, Working, Sending
  <1> SUFFICES ASSUME NEW c \in Conns, NEW a \in Addresses, Wanted(t, c, a)'
               PROVE  /\ c \in members' \ remaining'[t] =>
                             /\ got'[t][c] # <<>>
                             /\ got'[t][c][1] >= Price(t, c, a)'
                      /\ pc'[t] = "push" /\ at'[t] = c =>
                             priority'[t] >= Price(t, c, a)'
    BY DEF Due
  <1>2. Wanted(t, c, a) /\ Price(t, c, a)' = Price(t, c, a)
    BY <1>1, WantedBefore
  <1> QED
    BY <1>2 DEF Due

\* A connection the loop leaves, if what is wanted there was pushed.
LEMMA DueLeft ==
    ASSUME TypeOK, Busy, Entries, Prepared, [Next]_vars, NEW t \in Threads,
           pc[t] \in Sending, Due(t), NEW d \in Conns, Leave(t, d),
           packet'[t] = packet[t], started'[t] = started[t],
           members' = members,
           \A c \in Conns \ {d} : got'[t][c] = got[t][c],
           \A a \in Addresses : Wanted(t, d, a) =>
               got'[t][d] # <<>> /\ got'[t][d][1] >= Price(t, d, a)
    PROVE  Due(t)'
  <1>1. packet[t] \in Packets
    BY DEF Busy, Working, Sending
  <1>2. pc'[t] = "loop" /\ remaining'[t] = remaining[t] \ {d}
    BY LeaveTypes
  <1> SUFFICES ASSUME NEW c \in Conns, NEW a \in Addresses,
                      Wanted(t, c, a)', c \in members' \ remaining'[t]
               PROVE  got'[t][c] # <<>> /\ got'[t][c][1] >= Price(t, c, a)'
    BY <1>2 DEF Due
  <1>3. Wanted(t, c, a) /\ Price(t, c, a)' = Price(t, c, a)
    BY <1>1, WantedBefore
  <1>4. CASE c = d
    BY <1>3, <1>4
  <1>5. CASE c # d
    BY <1>2, <1>3, <1>5 DEF Due
  <1> QED
    BY <1>4, <1>5

LEMMA DueKept ==
    ASSUME TypeOK, Busy, Entries, Untouched, Prepared, Alone,
           NEW t \in Threads, Step(t), pc[t] \in Sending => Due(t),
           pc'[t] \in Sending
    PROVE  Due(t)'
  <1>0. [Next]_vars
    BY DEF Next
  <1>1. CASE Lock(t)
    <2>1. remaining'[t] = members' /\ pc'[t] = "loop"
      BY <1>1 DEF Lock, TypeOK
    <2> QED
      BY <2>1 DEF Due
  <1>2. CASE pc[t] \in Sending /\ UNCHANGED handling
    <2>0. /\ Due(t) /\ packet[t] \in Packets
          /\ packet'[t] = packet[t] /\ started'[t] = started[t]
      BY <1>2 DEF Busy, Working, Sending, handling
    <2>1. ASSUME NEW c \in Conns, CheckSource(t, c) PROVE Due(t)'
      <3>1. members' = members /\ got' = got
        BY <2>1 DEF CheckSource
      <3>2. CASE Reachable(c, packet[t].source)
        <4>1. packet[t].source \in Addresses
          BY <2>0, PacketsAssumption
        <4>2. heard[c][packet[t].source] # Absent
          BY <3>2, <4>1, ReachableIfHeard
        <4>3. Leave(t, c)
          BY <2>1, <3>2 DEF CheckSource
        <4>4. \A a \in Addresses : ~Wanted(t, c, a)
          BY <4>2 DEF Wanted
        <4> QED
          BY <1>0, <1>2, <2>0, <3>1, <4>3, <4>4, DueLeft
      <3>3. CASE ~Reachable(c, packet[t].source)
        <4>1. pc'[t] # "push" /\ remaining' = remaining
          BY <2>1, <3>3 DEF CheckSource, TypeOK
        <4> QED
          BY <1>0, <1>2, <2>0, <3>1, <4>1, DueStays
      <3> QED
        BY <3>2, <3>3
    <2>2. ASSUME NEW S \in SUBSET Addresses, at[t] \in Conns,
                 Offer(t, at[t], Accepted(t, at[t], S)),
                 members' = members, got' = got,
                 \A a \in Addresses : Wanted(t, at[t], a) =>
                     Price(t, at[t], a) \in Accepted(t, at[t], S)
          PROVE  Due(t)'
      <3>1. CASE Leave(t, at[t]) /\ Accepted(t, at[t], S) = {}
        <4>1. \A a \in Addresses : ~Wanted(t, at[t], a)
          BY <2>2, <3>1
        <4> QED
          BY <1>0, <1>2, <2>0, <2>2, <3>1, <4>1, DueLeft
      <3>2. ASSUME remaining' = remaining, at' = at,
                   \A n \in Accepted(t, at[t], S) : n <= priority'[t]
            PROVE  Due(t)'
        <4> SUFFICES ASSUME NEW c \in Conns, NEW a \in Addresses,
                            Wanted(t, c, a)'
                     PROVE  /\ c \in members' \ remaining'[t] =>
                                   /\ got'[t][c] # <<>>
                                   /\ got'[t][c][1] >= Price(t, c, a)'
                            /\ pc'[t] = "push" /\ at'[t] = c =>
                                   priority'[t] >= Price(t, c, a)'
          BY DEF Due
        <4>1. Wanted(t, c, a) /\ Price(t, c, a)' = Price(t, c, a)
          BY <1>0, <2>0, WantedBefore
        <4>2. c \in members' \ remaining'[t] =>
                  got'[t][c] # <<>> /\ got'[t][c][1] >= Price(t, c, a)'
          BY <2>0, <2>2, <3>2, <4>1 DEF Due
        <4>3. ASSUME at'[t] = c
              PROVE  priority'[t] >= Price(t, c, a)'
          <5>1. Price(t, c, a) \in Accepted(t, c, S)
            BY <2>2, <3>2, <4>1, <4>3
          <5>2. Price(t, c, a) <= priority'[t]
            BY <3>2, <4>3, <5>1
          <5> QED
            BY <4>1, <5>2
        <4> QED
          BY <4>2, <4>3
      <3> QED
        BY <2>0, <2>2, <3>1, <3>2, OfferHighest
    <2>3. CASE CheckDest(t)
      <3>1. /\ at[t] \in Conns /\ packet[t].dest \in Addresses
            /\ ~ToAll(t, at[t]) /\ ~ToSystem(t, at[t])
        BY <2>0, <2>3, PacketsAssumption
        DEF CheckDest, Busy, Working, Alone, ToAll, TypeOK
      <3>2. members' = members /\ got' = got
        BY <2>3 DEF CheckDest
      <3>3. CASE Reachable(at[t], packet[t].dest)
        <4>1. Offer(t, at[t], Accepted(t, at[t], {packet[t].dest}))
          BY <2>3, <3>3 DEF CheckDest
        <4>2. ASSUME NEW a \in Addresses, Wanted(t, at[t], a)
              PROVE  Price(t, at[t], a)
                         \in Accepted(t, at[t], {packet[t].dest})
          <5>1. packet[t].dest \in Relevant(t, at[t], {packet[t].dest})
            BY DEF Relevant
          <5>2. Price(t, at[t], a)
                    = filter[packet[t], Asked(t, at[t], packet[t].dest)]
            BY <3>1 DEF Price, Asked
          <5>3. Price(t, at[t], a) # Reject
            BY <4>2 DEF Wanted
          <5> QED
            BY <5>1, <5>2, <5>3 DEF Accepted
        <4>3. {packet[t].dest} \in SUBSET Addresses
          BY <3>1
        <4> QED
          BY <2>2, <3>1, <3>2, <4>1, <4>2, <4>3
      <3>4. CASE ~Reachable(at[t], packet[t].dest)
        <4>1. pc'[t] # "push" /\ remaining' = remaining
          BY <2>3, <3>4 DEF CheckDest, TypeOK
        <4> QED
          BY <1>0, <1>2, <2>0, <3>2, <4>1, DueStays
      <3> QED
        BY <3>3, <3>4
    <2>4. CASE ListAddresses(t)
      <3>1. /\ at[t] \in Conns /\ Live(at[t]) \in SUBSET Addresses
            /\ members' = members /\ got' = got
            /\ Offer(t, at[t], Accepted(t, at[t], Live(at[t])))
        BY <2>4 DEF ListAddresses, Busy, Working, TypeOK, Live
      <3>2. ASSUME NEW a \in Addresses, Wanted(t, at[t], a)
            PROVE  Price(t, at[t], a) \in Accepted(t, at[t], Live(at[t]))
        <4>1. a \in Live(at[t])
          BY <3>1, <3>2, WantedIsLive
        <4>2. a \in Relevant(t, at[t], Live(at[t]))
          BY <3>2, <4>1 DEF Wanted, Relevant
        <4> QED
          BY <3>2, <4>2 DEF Accepted, Wanted, Price
      <3> QED
        BY <2>2, <3>1, <3>2
    <2>5. CASE Push(t)
      <3>1. /\ pc[t] = "push" /\ at[t] \in Conns /\ at[t] \in remaining[t]
            /\ Leave(t, at[t]) /\ members' = members
        BY <2>5 DEF Push, Busy, Working, TypeOK
      <3>2. got[t][at[t]] = <<>>
        BY <3>1 DEF Untouched
      <3>3. /\ got'[t][at[t]] = <<priority[t]>>
            /\ \A c \in Conns \ {at[t]} : got'[t][c] = got[t][c]
        BY <2>5, <3>1, <3>2 DEF Push, TypeOK
      <3>4. \A a \in Addresses : Wanted(t, at[t], a) =>
                /\ got'[t][at[t]] # <<>>
                /\ got'[t][at[t]][1] >= Price(t, at[t], a)
        BY <2>0, <3>1, <3>3 DEF Due
      <3> QED
        BY <1>0, <1>2, <2>0, <3>1, <3>3, <3>4, DueLeft
    <2>6. ASSUME NEW c \in Conns, NEW p \in Packets, Receive(t, c, p)
          PROVE  FALSE
      BY <1>2, <2>6 DEF Receive, Sending
    <2>7. ~Join(t) /\ ~AddAddress(t) /\ ~Lock(t) /\ ~Done(t)
      BY <1>2 DEF Join, AddAddress, Lock, Done, Sending, TypeOK
    <2> QED
      BY <2>1, <2>3, <2>4, <2>5, <2>6, <2>7 DEF Step
  <1> QED
    BY <1>1, <1>2, StillSending

LEMMA ServedKept ==
    ASSUME Safe, Prepared, Alone, Served, [Next]_vars
    PROVE  Served'
  <1>0. /\ TypeOK /\ Busy /\ Entries /\ Untouched
        /\ \A t \in Threads : pc[t] \in Sending => Due(t)
    BY DEF Safe, Served, Due
  <1> SUFFICES ASSUME NEW u \in Threads, pc'[u] \in Sending
               PROVE  Due(u)'
    BY DEF Served, Due
  <1>1. CASE Tick \/ UNCHANGED vars
    <2>1. /\ Same(u) /\ members' = members
      BY <1>1 DEF Tick, vars, handling, Same
    <2> QED
      BY <1>0, <2>1, DueStays DEF Same
  <1>2. ASSUME NEW t \in Threads, Step(t), u # t PROVE Due(u)'
    <2>1. Same(u) /\ pc[u] \in Sending
      BY <1>0, <1>2, OthersStay DEF Same
    <2>2. members' = members
      BY <1>2, <2>1 DEF Step, Receive, Join, AddAddress, Lock, CheckSource,
         CheckDest, ListAddresses, Push, Done
    <2> QED
      BY <1>0, <2>1, <2>2, DueStays DEF Same
  <1>3. CASE Step(u)
    BY <1>0, <1>3, DueKept
  <1> QED
    BY <1>1, <1>2, <1>3 DEF Next

(***************************************************************************)
(* Nothing is lost between two looks at an address pool: what was to go to *)
(* a connection for the sake of an address that is still fresh was pushed  *)
(* there, with the priority for that address or a higher one, whatever the *)
(* other threads add and however long this one takes.                      *)
(***************************************************************************)
THEOREM AlwaysDelivered == Spec => []Delivered
  <1> DEFINE I == Safe /\ Prepared /\ Alone /\ Served
  <1>1. Init => I
    <2>1. Init => Prepared /\ Alone /\ Served
      BY TimeAssumption DEF Init, Prepared, Alone, Served, Sending
    <2> QED
      BY <2>1, InitTypes, InitHistory DEF Safe
  <1>2. I /\ [Next]_vars => I'
    BY SafeKept, PreparedKept, AloneKept, ServedKept DEF Safe
  <1>3. I => Delivered
    BY ServedIsDelivered
  <1> QED
    BY <1>1, <1>2, <1>3, PTL DEF Spec
=============================================================================
