------------------------- MODULE PacketQueue_proof -------------------------
(***************************************************************************)
(* Proofs about PacketQueue: its types, that no wakeup is lost, that close *)
(* releases every waiter, and that it implements PriorityBuffer.           *)
(***************************************************************************)
EXTENDS PacketQueue, FiniteSetTheorems, TLAPS

-----------------------------------------------------------------------------
(* Lemmas about tickets *)

\* The next ticket is a ticket.
LEMMA NextTicketType == \A t \in Ticket : NextTicket(t) \in Ticket
  BY HalfAssumption DEF NextTicket, Ticket, TicketMod

\* The ticket just drawn has age 1, and drawing it adds one to the age of
\* every ticket that is not a full turn behind.
LEMMA AgeGrows ==
    ASSUME NEW t \in Ticket
    PROVE  /\ \A x : x.ticket = t => Age(NextTicket(t), x) = 1
           /\ \A x : x.ticket \in Ticket /\ Age(t, x) \in 1 .. Half - 1 =>
                  Age(NextTicket(t), x) = Age(t, x) + 1
  BY HalfAssumption DEF NextTicket, Ticket, TicketMod, Age, Sub

\* Within one half of the ticket circle the comparison of two packets of
\* one priority is the comparison of their ages.
LEMMA LessIsYounger ==
    ASSUME NEW t \in Ticket, NEW x, NEW y,
           x.ticket \in Ticket, y.ticket \in Ticket,
           Age(t, x) \in 1 .. Half, Age(t, y) \in 1 .. Half
    PROVE  (Sub(y.ticket, x.ticket) > MaxOverTwo) <=> (Age(t, x) < Age(t, y))
  BY HalfAssumption DEF Ticket, TicketMod, Age, Sub, MaxOverTwo

\* Two tickets of one age are the same ticket.
LEMMA AgeInjective ==
    ASSUME NEW t \in Ticket, NEW x, NEW y,
           x.ticket \in Ticket, y.ticket \in Ticket, Age(t, x) = Age(t, y)
    PROVE  x.ticket = y.ticket
  BY HalfAssumption DEF Ticket, TicketMod, Age, Sub

-----------------------------------------------------------------------------
(* Types *)

\* get_packet_ takes nothing or one packet, which was in the queue.
LEMMA GetPacketTakesOne ==
    ASSUME TypeOK, GetPacket
    PROVE  /\ queue' \in SUBSET QueuedPackets
           /\ IsFiniteSet(queue')
           /\ \/ queue' = queue
              \/ running /\ \E x \in Tops : queue' = queue \ {x}
  <1>1. CASE running /\ queue # {}
    <2>1. PICK x \in Tops : queue' = queue \ {x}
      BY <1>1 DEF GetPacket
    <2>2. IsFiniteSet(queue \ {x})
      BY FS_RemoveElement DEF TypeOK
    <2> QED
      BY <1>1, <2>1, <2>2 DEF TypeOK
  <1>2. CASE ~(running /\ queue # {})
    BY <1>2 DEF GetPacket, TypeOK
  <1> QED
    BY <1>1, <1>2

LEMMA TypeStep == TypeOK /\ [Next]_vars => TypeOK'
  <1> SUFFICES ASSUME TypeOK, [Next]_vars PROVE TypeOK'
    OBVIOUS
  <1>1. ASSUME NEW p \in Producers, NEW pkt \in Packets, NEW prio \in Priorities,
               Push(p, pkt, prio)
        PROVE  TypeOK'
    <2> DEFINE new == [packet |-> pkt, priority |-> prio, ticket |-> ticket]
    <2>1. new \in QueuedPackets
      BY DEF QueuedPackets, TypeOK
    <2>2. queue' = queue \cup {new}
      BY <1>1 DEF Push
    <2>3. IsFiniteSet(queue')
      BY <2>2, FS_AddElement DEF TypeOK
    <2>4. ticket' \in Ticket
      BY <1>1, NextTicketType DEF Push, TypeOK
    <2>5. pushed' \in 0 .. MaxPushes
      BY <1>1, PushesAssumption DEF Push, TypeOK
    <2> QED
      BY <1>1, <2>1, <2>2, <2>3, <2>4, <2>5 DEF Push, TypeOK
  <1>2. ASSUME NEW p \in Producers, NotifyOne(p) PROVE TypeOK'
    BY <1>2 DEF NotifyOne, Asleep, TypeOK
  <1>3. CASE Close
    BY <1>3 DEF Close, TypeOK
  <1>4. CASE NotifyAll
    BY <1>4 DEF NotifyAll, TypeOK
  <1>5. ASSUME NEW c \in Consumers, PopNow(c) PROVE TypeOK'
    BY <1>5, GetPacketTakesOne DEF PopNow, TypeOK
  <1>6. ASSUME NEW c \in Consumers, NEW d \in BOOLEAN, Pop(c, d) PROVE TypeOK'
    <2>1. CASE Ready
      BY <1>6, <2>1, GetPacketTakesOne DEF Pop, TypeOK
    <2>2. CASE ~Ready
      BY <1>6, <2>2 DEF Pop, TypeOK
    <2> QED
      BY <2>1, <2>2
  <1>7. ASSUME NEW c \in Consumers, Expire(c) PROVE TypeOK'
    BY <1>7 DEF Expire, TypeOK
  <1>8. ASSUME NEW c \in Consumers, SpuriousWake(c) PROVE TypeOK'
    BY <1>8 DEF SpuriousWake, TypeOK
  <1>9. ASSUME NEW c \in Consumers, Recheck(c) PROVE TypeOK'
    <2>1. CASE Ready \/ expired[c]
      BY <1>9, <2>1, GetPacketTakesOne DEF Recheck, TypeOK
    <2>2. CASE ~(Ready \/ expired[c])
      BY <1>9, <2>2 DEF Recheck, TypeOK
    <2> QED
      BY <2>1, <2>2
  <1>10. CASE UNCHANGED vars
    BY <1>10 DEF vars, TypeOK
  <1> QED
    BY <1>1, <1>2, <1>3, <1>4, <1>5, <1>6, <1>7, <1>8, <1>9, <1>10 DEF Next

\* The state of the queue stays well-formed: the ticket wraps instead of
\* running out of its type, and the queue stays finite.
THEOREM TypeCorrect == Spec => []TypeOK
  <1>1. Init => TypeOK
    <2>1. 0 \in Ticket
      BY HalfAssumption DEF Ticket, TicketMod
    <2>2. IsFiniteSet({})
      BY FS_EmptySet
    <2>3. 0 \in 0 .. MaxPushes
      BY PushesAssumption
    <2> QED
      BY <2>1, <2>2, <2>3 DEF Init, TypeOK
  <1> QED
    BY <1>1, TypeStep, PTL DEF Spec

-----------------------------------------------------------------------------
(* Wakeups *)

\* A consumer that leaves or enters the wait set changes the two sets by it.
LEMMA StateChange ==
    ASSUME TypeOK, NEW c \in Consumers, NEW s \in {"idle", "asleep", "woken"},
           state' = [state EXCEPT ![c] = s]
    PROVE  /\ Woken' = IF s = "woken" THEN Woken \cup {c} ELSE Woken \ {c}
           /\ Asleep' = IF s = "asleep" THEN Asleep \cup {c} ELSE Asleep \ {c}
  BY DEF TypeOK, Woken, Asleep

\* The sets counted by NoLostWakeup are finite.
LEMMA FiniteThreads ==
    ASSUME TypeOK
    PROVE  /\ IsFiniteSet(Woken)
           /\ IsFiniteSet(pushing)
           /\ Cardinality(Woken) \in Nat
           /\ Cardinality(pushing) \in Nat
           /\ Cardinality(queue) \in Nat
  <1>1. Woken \subseteq Consumers /\ pushing \subseteq Producers
    BY DEF Woken, TypeOK
  <1>2. IsFiniteSet(Woken) /\ IsFiniteSet(pushing)
    BY <1>1, ThreadsAssumption, FS_Subset
  <1> QED
    BY <1>2, FS_CardinalityType DEF TypeOK

\* What get_packet_ leaves in the queue.
LEMMA GetPacketCounts ==
    ASSUME TypeOK, GetPacket, running
    PROVE  /\ queue = {} => queue' = {}
           /\ queue # {} => Cardinality(queue') = Cardinality(queue) - 1
  <1>1. ASSUME queue # {} PROVE Cardinality(queue') = Cardinality(queue) - 1
    <2>1. PICK x \in queue : queue' = queue \ {x}
      BY <1>1 DEF GetPacket, Tops
    <2> QED
      BY <2>1, FS_RemoveElement DEF TypeOK
  <1> QED
    BY <1>1 DEF GetPacket

LEMMA WakeupStep == TypeOK /\ NoLostWakeup /\ [Next]_vars => NoLostWakeup'
  <1> SUFFICES ASSUME TypeOK, NoLostWakeup, [Next]_vars,
                      running', Asleep' # {}
               PROVE  Cardinality(queue') <=
                          Cardinality(Woken') + Cardinality(pushing')
    BY DEF NoLostWakeup
  <1> USE FiniteThreads
  <1>empty. Cardinality({}) = 0
    BY FS_EmptySet
  <1>1. ASSUME NEW p \in Producers, NEW pkt \in Packets, NEW prio \in Priorities,
               Push(p, pkt, prio)
        PROVE  Cardinality(queue') <= Cardinality(Woken') + Cardinality(pushing')
    <2> DEFINE new == [packet |-> pkt, priority |-> prio, ticket |-> ticket]
    <2>1. queue' = queue \cup {new}
      BY <1>1 DEF Push
    <2> HIDE DEF new
    <2>2. Cardinality(queue') <= Cardinality(queue) + 1
      <3>1. IsFiniteSet(queue)
        BY DEF TypeOK
      <3>2. Cardinality(queue \cup {new}) =
                IF new \in queue THEN Cardinality(queue)
                                  ELSE Cardinality(queue) + 1
        BY <3>1, FS_AddElement
      <3> QED
        BY <2>1, <3>2
    <2>3. Cardinality(pushing') = Cardinality(pushing) + 1
      BY <1>1, FS_AddElement DEF Push
    <2>4. Woken' = Woken /\ Asleep' = Asleep /\ running' = running
      BY <1>1 DEF Push, Woken, Asleep
    <2>5. Cardinality(queue') \in Nat
      BY <2>1, FS_AddElement, FS_CardinalityType DEF TypeOK
    <2> QED
      BY <2>2, <2>3, <2>4, <2>5 DEF NoLostWakeup
  <1>2. ASSUME NEW p \in Producers, NotifyOne(p)
        PROVE  Cardinality(queue') <= Cardinality(Woken') + Cardinality(pushing')
    <2>1. Cardinality(pushing') = Cardinality(pushing) - 1
      BY <1>2, FS_RemoveElement DEF NotifyOne
    <2>2. Asleep # {}
      BY <1>2 DEF NotifyOne, Asleep
    <2>3. PICK c \in Asleep : state' = [state EXCEPT ![c] = "woken"]
      BY <1>2, <2>2 DEF NotifyOne
    <2>4. Woken' = Woken \cup {c} /\ c \notin Woken
      BY <2>3, StateChange DEF Asleep, Woken
    <2>5. Cardinality(Woken') = Cardinality(Woken) + 1
      BY <2>4, FS_AddElement
    <2> QED
      BY <1>2, <2>1, <2>2, <2>5 DEF NotifyOne, NoLostWakeup
  <1>3. CASE Close
    BY <1>3 DEF Close
  <1>4. CASE NotifyAll
    BY <1>4 DEF NotifyAll, Asleep, TypeOK
  <1>5. ASSUME NEW c \in Consumers, PopNow(c)
        PROVE  Cardinality(queue') <= Cardinality(Woken') + Cardinality(pushing')
    <2>1. /\ GetPacket
          /\ Woken' = Woken /\ Asleep' = Asleep
          /\ running' = running /\ pushing' = pushing
      BY <1>5 DEF PopNow, Woken, Asleep
    <2>2. Cardinality(queue') <= Cardinality(queue)
      BY <2>1, GetPacketCounts
    <2>3. Cardinality(queue') \in Nat
      BY <2>1, GetPacketTakesOne, FS_CardinalityType
    <2> QED
      BY <2>1, <2>2, <2>3 DEF NoLostWakeup
  <1>6. ASSUME NEW c \in Consumers, NEW d \in BOOLEAN, Pop(c, d)
        PROVE  Cardinality(queue') <= Cardinality(Woken') + Cardinality(pushing')
    <2>1. running' = running /\ pushing' = pushing
      BY <1>6 DEF Pop
    <2>2. CASE Ready
      <3>1. GetPacket /\ Woken' = Woken /\ Asleep' = Asleep
        BY <1>6, <2>2 DEF Pop, Woken, Asleep
      <3>2. Cardinality(queue') <= Cardinality(queue)
        BY <2>1, <3>1, GetPacketCounts
      <3>3. Cardinality(queue') \in Nat
        BY <3>1, GetPacketTakesOne, FS_CardinalityType
      <3> QED
        BY <2>1, <3>1, <3>2, <3>3 DEF NoLostWakeup
    <2>3. CASE ~Ready
      <3>1. queue' = {}
        BY <1>6, <2>3 DEF Pop, Ready
      <3>2. Woken' = Woken \ {c}
        BY <1>6, <2>3, StateChange DEF Pop
      <3>3. Cardinality(Woken') \in Nat
        BY <3>2, FS_RemoveElement, FS_CardinalityType
      <3> QED
        BY <2>1, <3>1, <3>3, <1>empty
    <2> QED
      BY <2>2, <2>3
  <1>7. ASSUME NEW c \in Consumers, Expire(c) \/ SpuriousWake(c)
        PROVE  Cardinality(queue') <= Cardinality(Woken') + Cardinality(pushing')
    <2>1. /\ state[c] = "asleep"
          /\ state' = [state EXCEPT ![c] = "woken"]
          /\ running' = running /\ pushing' = pushing /\ queue' = queue
      BY <1>7 DEF Expire, SpuriousWake
    <2>2. Woken' = Woken \cup {c} /\ c \notin Woken /\ Asleep # {}
      BY <2>1, StateChange DEF Woken, Asleep
    <2>3. Cardinality(Woken') = Cardinality(Woken) + 1
      BY <2>2, FS_AddElement
    <2> QED
      BY <2>1, <2>2, <2>3 DEF NoLostWakeup
  <1>8. ASSUME NEW c \in Consumers, Recheck(c)
        PROVE  Cardinality(queue') <= Cardinality(Woken') + Cardinality(pushing')
    <2>1. /\ running' = running /\ pushing' = pushing
          /\ c \in Woken /\ c \notin Asleep
      BY <1>8 DEF Recheck, Woken, Asleep
    <2>2. CASE Ready \/ expired[c]
      <3>1. GetPacket /\ state' = [state EXCEPT ![c] = "idle"]
        BY <1>8, <2>2 DEF Recheck
      <3>2. Woken' = Woken \ {c} /\ Asleep' = Asleep \ {c}
        BY <3>1, StateChange
      <3>3. Cardinality(Woken') = Cardinality(Woken) - 1
        BY <2>1, <3>2, FS_RemoveElement
      <3>4. CASE queue = {}
        <4>1. queue' = {}
          BY <2>1, <3>1, <3>4, GetPacketCounts
        <4>2. Cardinality(Woken') \in Nat
          BY <3>2, FS_RemoveElement, FS_CardinalityType
        <4> QED
          BY <2>1, <4>1, <4>2, <1>empty
      <3>5. CASE queue # {}
        <4>1. Cardinality(queue') = Cardinality(queue) - 1
          BY <2>1, <3>1, <3>5, GetPacketCounts
        <4> QED
          BY <2>1, <3>2, <3>3, <4>1 DEF NoLostWakeup
      <3> QED
        BY <3>4, <3>5
    <2>3. CASE ~(Ready \/ expired[c])
      <3>1. queue' = {} /\ state' = [state EXCEPT ![c] = "asleep"]
        BY <1>8, <2>3 DEF Recheck, Ready
      <3>2. Woken' = Woken \ {c}
        BY <3>1, StateChange
      <3>3. Cardinality(Woken') \in Nat
        BY <3>2, FS_RemoveElement, FS_CardinalityType
      <3> QED
        BY <2>1, <3>1, <3>3, <1>empty
    <2> QED
      BY <2>2, <2>3
  <1>9. CASE UNCHANGED vars
    BY <1>9 DEF vars, NoLostWakeup, Woken, Asleep
  <1> QED
    BY <1>1, <1>2, <1>3, <1>4, <1>5, <1>6, <1>7, <1>8, <1>9 DEF Next

\* No wakeup is lost, however many threads push and pop: TypeOK is all the
\* strengthening that NoLostWakeup needs to be inductive.
THEOREM WakeupsKept == Spec => []NoLostWakeup
  <1>1. Init => NoLostWakeup
    BY DEF Init, NoLostWakeup, Asleep
  <1> QED
    BY <1>1, WakeupStep, TypeCorrect, PTL DEF Spec

\* close releases every waiter: between its two halves a consumer may still
\* sleep, after the second none does, because Ready stays true.
THEOREM CloseReleasesAll == Spec => []CloseReleases
  <1>1. Init => CloseReleases
    BY DEF Init, CloseReleases
  <1>2. TypeOK /\ CloseReleases /\ [Next]_vars => CloseReleases'
    <2> SUFFICES ASSUME TypeOK, CloseReleases, [Next]_vars
                 PROVE  CloseReleases'
      OBVIOUS
    <2>1. ASSUME NEW p \in Producers, NEW pkt \in Packets,
                 NEW prio \in Priorities, Push(p, pkt, prio)
          PROVE  CloseReleases'
      BY <2>1 DEF Push, CloseReleases, Asleep
    <2>2. ASSUME NEW p \in Producers, NotifyOne(p) PROVE CloseReleases'
      BY <2>2 DEF NotifyOne, CloseReleases, Asleep, TypeOK
    <2>3. CASE Close
      BY <2>3 DEF Close, CloseReleases
    <2>4. CASE NotifyAll
      BY <2>4 DEF NotifyAll, CloseReleases, Asleep, TypeOK
    <2>5. ASSUME NEW c \in Consumers, PopNow(c) PROVE CloseReleases'
      BY <2>5 DEF PopNow, CloseReleases, Asleep
    <2>6. ASSUME NEW c \in Consumers, NEW d \in BOOLEAN, Pop(c, d)
          PROVE  CloseReleases'
      BY <2>6 DEF Pop, Ready, CloseReleases, Asleep
    <2>7. ASSUME NEW c \in Consumers, Expire(c) \/ SpuriousWake(c)
          PROVE  CloseReleases'
      BY <2>7 DEF Expire, SpuriousWake, CloseReleases, Asleep, TypeOK
    <2>8. ASSUME NEW c \in Consumers, Recheck(c) PROVE CloseReleases'
      BY <2>8 DEF Recheck, Ready, CloseReleases, Asleep, TypeOK
    <2>9. CASE UNCHANGED vars
      BY <2>9 DEF vars, CloseReleases, Asleep
    <2> QED
      BY <2>1, <2>2, <2>3, <2>4, <2>5, <2>6, <2>7, <2>8, <2>9 DEF Next
  <1> QED
    BY <1>1, <1>2, TypeCorrect, PTL DEF Spec
-----------------------------------------------------------------------------
(* Refinement of PriorityBuffer *)

(***************************************************************************)
(* What the order of the queue rests on: the tickets compared lie in one   *)
(* half of the circle, and no two packets share one.                       *)
(***************************************************************************)
TicketInv ==
    /\ InWindow(ticket, queue)
    /\ \A x, y \in queue : x.ticket = y.ticket => x = y

LEMMA TicketStep == TypeOK /\ TicketInv /\ [Next]_vars => TicketInv'
  <1> SUFFICES ASSUME TypeOK, TicketInv, [Next]_vars PROVE TicketInv'
    OBVIOUS
  <1>1. ASSUME NEW p \in Producers, NEW pkt \in Packets, NEW prio \in Priorities,
               Push(p, pkt, prio)
        PROVE  TicketInv'
    <2> DEFINE new == [packet |-> pkt, priority |-> prio, ticket |-> ticket]
    <2>1. /\ queue' = queue \cup {new} /\ new.ticket = ticket
          /\ ticket' = NextTicket(ticket)
          /\ \A x \in queue : Age(ticket, x) \in 1 .. Half - 1
      BY <1>1 DEF Push
    <2> HIDE DEF new
    <2>2. \A x \in queue : x.ticket \in Ticket
      BY DEF TypeOK, QueuedPackets
    <2>3. ticket \in Ticket
      BY DEF TypeOK
    <2>4. Age(ticket', new) = 1
      BY <2>1, <2>3, AgeGrows
    <2>5. ASSUME NEW x \in queue
          PROVE  /\ Age(ticket', x) = Age(ticket, x) + 1
                 /\ x.ticket # ticket
      <3>1. Age(ticket', x) = Age(ticket, x) + 1
        BY <2>1, <2>2, <2>3, AgeGrows
      <3>2. x.ticket = ticket => Age(ticket', x) = 1
        BY <2>1, <2>3, AgeGrows
      <3> QED
        BY <2>1, <3>1, <3>2, HalfAssumption
    <2>6. InWindow(ticket', queue')
      BY <2>1, <2>4, <2>5, HalfAssumption DEF InWindow
    <2> QED
      BY <2>1, <2>5, <2>6 DEF TicketInv
  <1>2. ASSUME ticket' = ticket, queue' \subseteq queue PROVE TicketInv'
    BY <1>2 DEF TicketInv, InWindow
  <1>3. ASSUME NEW p \in Producers, NotifyOne(p) PROVE TicketInv'
    BY <1>2, <1>3 DEF NotifyOne
  <1>4. CASE Close \/ NotifyAll
    BY <1>2, <1>4 DEF Close, NotifyAll
  <1>5. GetPacket => queue' \subseteq queue
    BY DEF GetPacket, Tops
  <1>6. ASSUME NEW c \in Consumers, PopNow(c) PROVE TicketInv'
    BY <1>2, <1>5, <1>6 DEF PopNow
  <1>7. ASSUME NEW c \in Consumers, NEW d \in BOOLEAN, Pop(c, d)
        PROVE  TicketInv'
    BY <1>2, <1>5, <1>7 DEF Pop
  <1>8. ASSUME NEW c \in Consumers, Expire(c) \/ SpuriousWake(c) \/ Recheck(c)
        PROVE  TicketInv'
    BY <1>2, <1>5, <1>8 DEF Expire, SpuriousWake, Recheck
  <1>9. CASE UNCHANGED vars
    BY <1>2, <1>9 DEF vars
  <1> QED
    BY <1>1, <1>3, <1>4, <1>6, <1>7, <1>8, <1>9 DEF Next

\* The order of the queue is kept usable, across any number of turns of the
\* ticket counter.
THEOREM TicketsUsable == Spec => []TicketInv
  <1>1. Init => TicketInv
    BY DEF Init, TicketInv, InWindow
  <1> QED
    BY <1>1, TicketStep, TypeCorrect, PTL DEF Spec

\* A push that moves the counter leaves the arrival numbers as they were.
LEMMA ArrivalsKept ==
    ASSUME TypeOK, TicketInv, NEW x \in queue,
           \/ ticket' = ticket /\ pushed' = pushed
           \/ /\ ticket' = NextTicket(ticket) /\ pushed' = pushed + 1
              /\ Age(ticket, x) \in 1 .. Half - 1
    PROVE  pushed' - Age(ticket', x) = pushed - Age(ticket, x)
  <1>1. x.ticket \in Ticket /\ ticket \in Ticket /\ pushed \in Int
    BY PushesAssumption DEF TypeOK, QueuedPackets
  <1>2. Age(ticket, x) \in Int
    BY HalfAssumption DEF TicketInv, InWindow
  <1>3. CASE ticket' = ticket /\ pushed' = pushed
    BY <1>3
  <1>4. CASE /\ ticket' = NextTicket(ticket) /\ pushed' = pushed + 1
             /\ Age(ticket, x) \in 1 .. Half - 1
    <2>1. Age(ticket', x) = Age(ticket, x) + 1
      BY <1>1, <1>4, AgeGrows
    <2> QED
      BY <1>1, <1>2, <1>4, <2>1
  <1> QED
    BY <1>3, <1>4

\* The packet on top of the queue is the one the abstract buffer hands out.
LEMMA TopIsFirst ==
    ASSUME TypeOK, TicketInv, NEW x \in Tops, NEW y \in queue, x # y
    PROVE  Buffer!Before(Arrived(x), Arrived(y)) /\ Arrived(x) # Arrived(y)
  <1>0. x \in queue /\ ~Less(x, y)
    BY DEF Tops
  <1>1. /\ x.ticket \in Ticket /\ y.ticket \in Ticket
        /\ x.priority \in Int /\ y.priority \in Int
        /\ ticket \in Ticket /\ pushed \in Int
    <2>1. x \in QueuedPackets /\ y \in QueuedPackets
      BY <1>0 DEF TypeOK
    <2>2. /\ x.ticket \in Ticket /\ y.ticket \in Ticket
          /\ x.priority \in Priorities /\ y.priority \in Priorities
      BY <2>1 DEF QueuedPackets
    <2>3. ticket \in Ticket /\ pushed \in Int
      BY PushesAssumption DEF TypeOK
    <2> QED
      BY <2>2, <2>3, PrioritiesAssumption
  <1>2. Age(ticket, x) \in 1 .. Half /\ Age(ticket, y) \in 1 .. Half
    BY <1>0 DEF TicketInv, InWindow
  <1>3. Age(ticket, x) # Age(ticket, y)
    BY <1>0, <1>1, AgeInjective DEF TicketInv
  <1>4. /\ Arrived(x).priority = x.priority
        /\ Arrived(y).priority = y.priority
        /\ Arrived(x).arrival = pushed - Age(ticket, x)
        /\ Arrived(y).arrival = pushed - Age(ticket, y)
    BY DEF Arrived
  <1>5. Arrived(x).arrival # Arrived(y).arrival
    BY <1>1, <1>2, <1>3, <1>4, HalfAssumption
  <1>6. CASE x.priority > y.priority
    BY <1>4, <1>5, <1>6 DEF Buffer!Before
  <1>7. CASE x.priority = y.priority
    <2>1. ~(Age(ticket, x) < Age(ticket, y))
      BY <1>0, <1>1, <1>2, <1>7, LessIsYounger DEF Less
    <2>2. Arrived(x).arrival < Arrived(y).arrival
      BY <1>1, <1>2, <1>3, <1>4, <2>1, HalfAssumption
    <2> QED
      BY <1>4, <1>5, <1>7, <2>2 DEF Buffer!Before
  <1> QED
    BY <1>0, <1>1, <1>6, <1>7 DEF Less

\* get_packet_ is a Take of the abstract buffer, or leaves it as it is.
LEMMA GetPacketRefines ==
    ASSUME TypeOK, TicketInv, GetPacket,
           UNCHANGED <<ticket, running, pushed>>
    PROVE  [Buffer!Next]_(Buffer!vars)
  <1>1. \A z \in queue : Arrived(z)' = Arrived(z)
    BY DEF Arrived, Age
  <1>2. CASE queue' = queue
    <2>1. {Arrived(z) : z \in queue}' = {Arrived(z) : z \in queue}
      BY <1>2 DEF Arrived, Age
    <2> QED
      BY <2>1 DEF Buffer!vars
  <1>3. ASSUME running, NEW x \in Tops, queue' = queue \ {x}
        PROVE  Buffer!Take
    <2>1. x \in queue
      BY DEF Tops
    <2>2. \A y \in {Arrived(z) : z \in queue} \ {Arrived(x)} :
              Buffer!Before(Arrived(x), y)
      BY TopIsFirst
    <2>3. {Arrived(z) : z \in queue}' = {Arrived(z) : z \in queue \ {x}}
      BY <1>3 DEF Arrived, Age
    <2>4. {Arrived(z) : z \in queue \ {x}} =
              {Arrived(z) : z \in queue} \ {Arrived(x)}
      BY <2>1, TopIsFirst
    <2>5. Arrived(x) \in {Arrived(z) : z \in queue}
      BY <2>1
    <2>6. {Arrived(z) : z \in queue}' =
              {Arrived(z) : z \in queue} \ {Arrived(x)}
      BY <2>3, <2>4
    <2>7. UNCHANGED <<pushed, running>>
      OBVIOUS
    <2> QED
      BY <1>3, <2>2, <2>5, <2>6, <2>7, Zenon DEF Buffer!Take
  <1> QED
    BY <1>2, <1>3, GetPacketTakesOne DEF Buffer!Next

(***************************************************************************)
(* The queue with its threads, its lock, its condition variable and its    *)
(* wrapping tickets implements the atomic buffer: pushes map to Push, the  *)
(* pops that return a packet to Take, everything else to a stutter.        *)
(***************************************************************************)
THEOREM ImplementsBuffer == Spec => BufferSpec
  <1>1. Init => Buffer!Init
    BY DEF Init, Buffer!Init
  <1>2. TypeOK /\ TicketInv /\ [Next]_vars => [Buffer!Next]_(Buffer!vars)
    <2> SUFFICES ASSUME TypeOK, TicketInv, [Next]_vars
                 PROVE  [Buffer!Next]_(Buffer!vars)
      OBVIOUS
    <2>1. ASSUME NEW p \in Producers, NEW pkt \in Packets,
                 NEW prio \in Priorities, Push(p, pkt, prio)
          PROVE  Buffer!Push
      <3> DEFINE new == [packet |-> pkt, priority |-> prio, ticket |-> ticket]
      <3>1. /\ queue' = queue \cup {new}
            /\ ticket' = NextTicket(ticket)
            /\ pushed' = pushed + 1 /\ running' = running
            /\ \A x \in queue : Age(ticket, x) \in 1 .. Half - 1
        BY <2>1 DEF Push
      <3>2. \A z \in queue : Arrived(z)' = Arrived(z)
        BY <3>1, ArrivalsKept DEF Arrived
      <3>3. new.ticket = ticket /\ new.packet = pkt /\ new.priority = prio
        OBVIOUS
      <3> HIDE DEF new
      <3>4. Age(ticket', new) = 1
        BY <3>1, <3>3, AgeGrows DEF TypeOK
      <3>5. pushed' - 1 = pushed
        BY <3>1, PushesAssumption DEF TypeOK
      <3>6. [packet |-> new.packet, priority |-> new.priority,
             arrival |-> pushed' - Age(ticket', new)] =
            [packet |-> pkt, priority |-> prio, arrival |-> pushed]
        BY <3>3, <3>4, <3>5
      <3>7. {Arrived(z) : z \in queue}' =
                {Arrived(z) : z \in queue} \cup
                {[packet |-> pkt, priority |-> prio, arrival |-> pushed]}
        BY <3>1, <3>2, <3>6 DEF Arrived
      <3> QED
        BY <3>1, <3>7 DEF Buffer!Push
    <2>2. ASSUME UNCHANGED <<queue, ticket, pushed>>
          PROVE  {Arrived(z) : z \in queue}' = {Arrived(z) : z \in queue}
      BY <2>2 DEF Arrived, Age
    <2>3. ASSUME UNCHANGED <<queue, ticket, pushed, running>>
          PROVE  UNCHANGED Buffer!vars
      BY <2>2, <2>3 DEF Buffer!vars
    <2>4. ASSUME NEW p \in Producers, NotifyOne(p)
          PROVE  UNCHANGED Buffer!vars
      BY <2>3, <2>4 DEF NotifyOne
    <2>5. CASE Close
      BY <2>2, <2>5 DEF Close, Buffer!Next, Buffer!Close
    <2>6. CASE NotifyAll
      BY <2>3, <2>6 DEF NotifyAll
    <2>7. ASSUME NEW c \in Consumers, PopNow(c)
          PROVE  [Buffer!Next]_(Buffer!vars)
      BY <2>7, GetPacketRefines DEF PopNow
    <2>8. ASSUME NEW c \in Consumers, NEW d \in BOOLEAN, Pop(c, d)
          PROVE  [Buffer!Next]_(Buffer!vars)
      BY <2>3, <2>8, GetPacketRefines DEF Pop
    <2>9. ASSUME NEW c \in Consumers, Expire(c) \/ SpuriousWake(c)
          PROVE  UNCHANGED Buffer!vars
      BY <2>3, <2>9 DEF Expire, SpuriousWake
    <2>10. ASSUME NEW c \in Consumers, Recheck(c)
           PROVE  [Buffer!Next]_(Buffer!vars)
      BY <2>3, <2>10, GetPacketRefines DEF Recheck
    <2>11. CASE UNCHANGED vars
      BY <2>3, <2>11 DEF vars
    <2> QED
      BY <2>1, <2>4, <2>5, <2>6, <2>7, <2>8, <2>9, <2>10, <2>11
      DEF Next, Buffer!Next
  <1> QED
    BY <1>1, <1>2, TypeCorrect, TicketsUsable, PTL
    DEF Spec, BufferSpec, Buffer!Spec
=============================================================================
