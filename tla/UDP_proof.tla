----------------------------- MODULE UDP_proof -----------------------------
(***************************************************************************)
(* Proofs about the sending of a UDP interface.  UDPTransmit, for any      *)
(* number of connections, producers and packets: no packet is stranded,    *)
(* the semaphore does not drift, and no connection is starved.             *)
(* UDPRateLimit, for every bitrate and all packet sizes: at most twice the *)
(* bitrate is sent.  UDPLink has all these properties, as it implements    *)
(* both.                                                                   *)
(***************************************************************************)
EXTENDS UDPLink, FiniteSetTheorems, TLAPS

Q     == Cardinality(queued)
Units == value + Cardinality(notifying)
P     == Cardinality(Producers)

-----------------------------------------------------------------------------
(* The inductive invariant *)

\* Packets are on connections that are in the map, and are numbered in the
\* order they were pushed.
Numbered ==
    /\ IsFiniteSet(queued)
    /\ \A k \in queued : k[1] \in known /\ k[2] <= pushed

\* The walk still has a packet before it.
PacketAhead == \E k \in queued : k[1] > cursor

(***************************************************************************)
(* Units against packets at every point of send_packet.  Before its first  *)
(* packet the walk has taken a unit in advance, which is only sound        *)
(* because a packet is then ahead or a unit is to spare.                   *)
(***************************************************************************)
EnoughUnits ==
    /\ pc = "wait" => Q <= Units
    /\ pc = "scan" /\ ~notFirst => Q <= Units \/ (Q <= Units + 1 /\ PacketAhead)
    /\ pc = "scan" /\ notFirst => Q <= Units
    /\ pc = "send" /\ ~notFirst => Q <= Units
    /\ pc = "send" /\ notFirst => Q + 1 <= Units
    /\ pc = "extra" => notFirst /\ Q + 1 <= Units

\* The other bound; a walk without a packet yet has one unit less.
FewUnits ==
    /\ pc = "scan" /\ ~notFirst => Units + 1 <= Q + P
    /\ ~(pc = "scan" /\ ~notFirst) => Units <= Q + P + Due

\* A connection that is owed a packet has one and is still to be visited.
OwedAhead ==
    /\ pc = "wait" => owed = {}
    /\ \A c \in owed : c > cursor /\ \E k \in queued : k[1] = c

IInv == TypeOK /\ Numbered /\ EnoughUnits /\ FewUnits /\ OwedAhead

-----------------------------------------------------------------------------
(* Lemmas about the counts *)

LEMMA CountTypes ==
    ASSUME TypeOK, Numbered
    PROVE  /\ Q \in Nat /\ P \in Nat /\ Units \in Nat /\ value \in Nat
           /\ Cardinality(notifying) \in Nat
           /\ Units = value + Cardinality(notifying)
           /\ Cardinality(notifying) <= P
           /\ IsFiniteSet(notifying)
           /\ \A c \in Conns : c \in Nat /\ c > None
  <1>1. IsFiniteSet(Producers) /\ notifying \in SUBSET Producers
    BY ProducersAssumption DEF TypeOK
  <1>2. IsFiniteSet(notifying) /\ Cardinality(notifying) <= P
    BY <1>1, FS_Subset DEF P
  <1>3. P \in Nat /\ Cardinality(notifying) \in Nat
    BY <1>1, <1>2, FS_CardinalityType DEF P
  <1>4. Q \in Nat
    BY FS_CardinalityType DEF Numbered, Q
  <1>5. \A c \in Conns : c \in Nat /\ c > None
    BY ConnsAssumption DEF None
  <1> QED
    BY <1>2, <1>3, <1>4, <1>5 DEF TypeOK, Units

\* A push adds a packet that was not queued before, and a notify to come.
LEMMA PushCounts ==
    ASSUME TypeOK, Numbered, NEW p \in Producers, NEW c \in Conns, Push(p, c)
    PROVE  Q' = Q + 1 /\ Units' = Units + 1 /\ Numbered' /\ TypeOK'
  <1> DEFINE new == <<c, pushed + 1>>
  <1>1. queued' = queued \cup {new}
    BY DEF Push
  <1>2. new \notin queued /\ new[1] = c /\ new[2] = pushed + 1
    BY BoundsAssumption DEF Numbered, TypeOK
  <1>3. new \in Packet /\ c \in known /\ pushed' = pushed + 1
    BY BoundsAssumption DEF Push, TypeOK, Packet
  <1> HIDE DEF new
  <1>4. Q' = Q + 1 /\ IsFiniteSet(queued')
    BY <1>1, <1>2, FS_AddElement DEF Numbered, Q
  <1>5. Cardinality(notifying') = Cardinality(notifying) + 1
    BY CountTypes, FS_AddElement DEF Push
  <1>6. Units' = Units + 1
    BY <1>5, CountTypes DEF Push, Units
  <1>7. \A k \in queued' : k[1] \in known' /\ k[2] <= pushed'
    <2>1. \A k \in queued : k[1] \in known' /\ k[2] <= pushed'
      <3>1. \A k \in queued : k[2] \in Int
        BY DEF TypeOK, Packet
      <3> QED
        BY <1>3, <3>1, BoundsAssumption DEF Push, Numbered, TypeOK
    <2>2. new[1] \in known' /\ new[2] <= pushed'
      BY <1>2, <1>3, BoundsAssumption DEF Push, TypeOK
    <2> QED
      BY <1>1, <2>1, <2>2
  <1>8. TypeOK'
    BY <1>1, <1>3, BoundsAssumption DEF Push, TypeOK, transmit
  <1> QED
    BY <1>4, <1>6, <1>7, <1>8 DEF Numbered

\* A notify turns a unit to come into a unit.
LEMMA NotifyCounts ==
    ASSUME TypeOK, Numbered, NEW p \in Producers, Notify(p)
    PROVE  Q' = Q /\ Units' = Units /\ Numbered' /\ TypeOK'
  <1>1. Cardinality(notifying') = Cardinality(notifying) - 1
    BY CountTypes, FS_RemoveElement DEF Notify
  <1>2. Units' = Units /\ Q' = Q
    BY <1>1, CountTypes DEF Notify, Units, Q
  <1>3. TypeOK' /\ Numbered'
    BY DEF Notify, TypeOK, Numbered, transmit
  <1> QED
    BY <1>2, <1>3

\* A pop takes one packet off the queues.
LEMMA PopCounts ==
    ASSUME TypeOK, Numbered, NEW k \in queued, queued' = queued \ {k},
           UNCHANGED <<known, pushed, notifying, value>>
    PROVE  Q' = Q - 1 /\ Units' = Units /\ Numbered'
  <1>1. Q' = Q - 1 /\ IsFiniteSet(queued')
    BY FS_RemoveElement DEF Numbered, Q
  <1> QED
    BY <1>1 DEF Numbered, Units

\* What leaves queues and semaphore alone leaves their counts alone.
LEMMA SameCounts ==
    ASSUME UNCHANGED <<queued, notifying, value>>
    PROVE  Q' = Q /\ Units' = Units /\ PacketAhead' = \E k \in queued : k[1] > cursor'
  BY DEF Q, Units, PacketAhead

-----------------------------------------------------------------------------
(* The invariant is inductive *)

LEMMA InitInv == Init => IInv
  <1> SUFFICES ASSUME Init PROVE IInv
    OBVIOUS
  <1>1. IsFiniteSet({}) /\ Cardinality({}) = 0
    BY FS_EmptySet
  <1>2. P \in Nat
    BY ProducersAssumption, FS_CardinalityType DEF P
  <1>3. TypeOK
    <2>1. 0 \in 0 .. MaxPushes
      BY BoundsAssumption
    <2> QED
      BY <2>1 DEF Init, TypeOK
  <1>4. Q = 0 /\ Units = 0
    BY <1>1 DEF Init, Q, Units
  <1>5. Numbered
    BY <1>1 DEF Init, Numbered
  <1>6. OwedAhead
    BY DEF Init, OwedAhead
  <1>7. pc = "wait" /\ Due = 0
    BY DEF Init, Due
  <1> QED
    BY <1>2, <1>3, <1>4, <1>5, <1>6, <1>7 DEF IInv, EnoughUnits, FewUnits

\* The insertions of the receive thread add connections without packets.
LEMMA InsertStep ==
    ASSUME IInv, (\E c \in Conns : BeginInsert(c)) \/ EndInsert \/ AddToPool
    PROVE  IInv'
  <1>1. UNCHANGED <<queued, pushed, notifying, value, transmit>>
    BY DEF BeginInsert, EndInsert, AddToPool
  <1>2. known \subseteq known' /\ TypeOK'
    BY DEF BeginInsert, EndInsert, AddToPool, IInv, TypeOK, transmit
  <1>3. Numbered'
    BY <1>1, <1>2 DEF IInv, Numbered
  <1> QED
    BY <1>1, <1>2, <1>3, SameCounts
    DEF IInv, EnoughUnits, FewUnits, OwedAhead, Due, transmit, PacketAhead

LEMMA PushStep ==
    ASSUME IInv, NEW p \in Producers, NEW c \in Conns, Push(p, c)
    PROVE  IInv'
  <1>1. TypeOK /\ Numbered
    BY DEF IInv
  <1>2. Q' = Q + 1 /\ Units' = Units + 1 /\ Numbered' /\ TypeOK'
    BY <1>1, PushCounts
  <1>3. Q \in Nat /\ Units \in Nat /\ P \in Nat
    BY <1>1, CountTypes
  <1>4. UNCHANGED <<pc, cursor, notFirst, owed>> /\ queued \subseteq queued'
    BY DEF Push, transmit
  <1>5. PacketAhead => PacketAhead'
    BY <1>4 DEF PacketAhead
  <1>6. EnoughUnits'
    BY <1>2, <1>3, <1>4, <1>5 DEF IInv, EnoughUnits
  <1>7. Due' = Due /\ Due \in Nat
    BY <1>4 DEF Due
  <1>8. FewUnits'
    BY <1>2, <1>3, <1>4, <1>7 DEF IInv, FewUnits
  <1>9. OwedAhead'
    BY <1>4 DEF IInv, OwedAhead
  <1> QED
    BY <1>2, <1>6, <1>8, <1>9 DEF IInv

LEMMA NotifyStep ==
    ASSUME IInv, NEW p \in Producers, Notify(p)
    PROVE  IInv'
  <1>1. Q' = Q /\ Units' = Units /\ Numbered' /\ TypeOK'
    BY NotifyCounts DEF IInv
  <1>2. UNCHANGED <<pc, cursor, notFirst, owed, queued>>
    BY DEF Notify, transmit
  <1> QED
    BY <1>1, <1>2
    DEF IInv, EnoughUnits, FewUnits, OwedAhead, PacketAhead, Due

\* The unit taken in advance: if any packet is queued, one is ahead.
LEMMA WaitStep == ASSUME IInv, Wait PROVE IInv'
  <1>1. TypeOK /\ Numbered
    BY DEF IInv
  <1>2. Q \in Nat /\ Units \in Nat /\ P \in Nat /\ value \in Nat
    BY <1>1, CountTypes
  <1>3. /\ Q' = Q /\ Units' = Units - 1
        /\ pc = "wait" /\ pc' = "scan" /\ ~notFirst' /\ queued' = queued
        /\ cursor' = None /\ owed' = {k[1] : k \in queued} /\ known' = known
    BY <1>1, CountTypes DEF Wait, Q, Units
  <1>4. \A k \in queued : k[1] \in Conns /\ k[1] > None
    BY <1>1, CountTypes DEF TypeOK, Packet
  <1>5. TypeOK' /\ Numbered'
    <2>1. {k[1] : k \in queued} \in SUBSET Conns
      BY <1>4
    <2>2. value' \in Nat
      BY <1>2 DEF Wait
    <2> QED
      BY <1>1, <1>3, <2>1, <2>2 DEF Wait, TypeOK, Numbered
  <1>6. Q = 0 \/ PacketAhead'
    <2>1. IsFiniteSet(queued) /\ (Q = 0 <=> queued = {})
      BY <1>1, FS_EmptySet DEF Numbered, Q
    <2> QED
      BY <1>3, <1>4, <2>1 DEF PacketAhead
  <1>7. Q <= Units /\ Units <= Q + P
    BY <1>2, <1>3 DEF IInv, EnoughUnits, FewUnits, Due
  <1>8. Units' \in Nat
    BY <1>1, <1>5, CountTypes DEF Wait, Units
  <1>9. EnoughUnits' /\ FewUnits'
    BY <1>2, <1>3, <1>6, <1>7, <1>8 DEF EnoughUnits, FewUnits, P
  <1>10. OwedAhead'
    BY <1>3, <1>4 DEF OwedAhead
  <1> QED
    BY <1>5, <1>9, <1>10 DEF IInv

\* The walk visits the least of the connections ahead of it.
LEMMA VisitStep ==
    ASSUME IInv, NEW c \in Conns, Visit(c)
    PROVE  IInv'
  <1>1. TypeOK /\ Numbered
    BY DEF IInv
  <1>2. Q \in Nat /\ Units \in Nat /\ P \in Nat
    BY <1>1, CountTypes
  <1>3. /\ pc = "scan" /\ cursor' = c /\ notFirst' = notFirst
        /\ UNCHANGED <<known, inserting, pooled, pushed, notifying, value>>
    BY DEF Visit, Serve
  <1>4. c \in known /\ c > cursor /\ \A d \in known : d > cursor => c <= d
    BY DEF Visit, Following, Ahead
  <1>5. \A k \in queued : k[1] \in known /\ k[1] \in Nat
    BY <1>1, CountTypes DEF Numbered, TypeOK
  <1>6. c \in Nat /\ cursor \in Nat
    BY <1>1, CountTypes DEF TypeOK, None
  <1>7. CASE \E k \in queued : k[1] = c
    <2>1. PICK k \in queued : k[1] = c /\ queued' = queued \ {k}
      BY <1>7 DEF Visit, Serve
    <2>2. pc' = "send" /\ owed' = owed \ {c}
      BY <1>7 DEF Visit, Serve
    <2>3. Q' = Q - 1 /\ Units' = Units /\ Numbered'
      BY <1>1, <1>3, <2>1, PopCounts
    <2>4. TypeOK'
      BY <1>1, <1>3, <2>1, <2>2 DEF TypeOK
    <2>5. EnoughUnits'
      BY <1>2, <1>3, <2>2, <2>3 DEF IInv, EnoughUnits
    <2>6. Due' = (IF notFirst THEN 1 ELSE 0) /\ Due = 0
      BY <1>3, <2>2 DEF Due
    <2>7. Q' \in Int
      BY <1>2, <2>3
    <2>8. FewUnits'
      BY <1>2, <1>3, <2>2, <2>3, <2>6 DEF IInv, FewUnits, TypeOK, P
    <2>9. ASSUME NEW d \in owed' PROVE d > cursor' /\ \E j \in queued' : j[1] = d
      <3>1. d \in owed /\ d # c /\ d > cursor
        BY <2>2, <2>9 DEF IInv, OwedAhead
      <3>2. PICK j \in queued : j[1] = d
        BY <3>1 DEF IInv, OwedAhead
      <3>3. j \in queued'
        BY <2>1, <3>1, <3>2
      <3>4. d \in known /\ d \in Nat
        BY <1>5, <3>2
      <3> QED
        BY <1>3, <1>4, <1>6, <3>1, <3>2, <3>3, <3>4
    <2>10. OwedAhead'
      BY <2>2, <2>9 DEF OwedAhead
    <2> QED
      BY <2>3, <2>4, <2>5, <2>8, <2>10 DEF IInv
  <1>8. CASE ~ \E k \in queued : k[1] = c
    <2>1. queued' = queued /\ pc' = pc /\ owed' = owed
      BY <1>8 DEF Visit, Serve
    <2>2. Q' = Q /\ Units' = Units /\ Due' = Due
      BY <1>3, <2>1 DEF Q, Units, Due
    <2>3. TypeOK' /\ Numbered'
      BY <1>1, <1>3, <2>1 DEF TypeOK, Numbered
    <2>4. \A d \in known : d \in Nat /\ d > cursor /\ d # c => d > c
      BY <1>4, <1>6
    <2>5. PacketAhead => PacketAhead'
      BY <1>3, <1>5, <1>8, <2>1, <2>4 DEF PacketAhead
    <2>6. EnoughUnits' /\ FewUnits'
      BY <1>3, <2>1, <2>2, <2>5 DEF IInv, EnoughUnits, FewUnits, P
    <2>7. OwedAhead'
      <3>1. \A d \in owed : \E k \in queued : k[1] = d /\ d > cursor
        BY DEF IInv, OwedAhead
      <3>2. \A d \in owed : d \in known /\ d \in Nat /\ d # c /\ d > cursor
        BY <1>5, <1>8, <3>1
      <3> QED
        BY <1>3, <2>1, <2>4, <3>1, <3>2 DEF OwedAhead
    <2> QED
      BY <2>3, <2>6, <2>7 DEF IInv
  <1> QED
    BY <1>7, <1>8

\* At the end of the map nothing is ahead, so no unit was taken in vain.
LEMMA EndScanStep == ASSUME IInv, EndScan PROVE IInv'
  <1>1. /\ pc = "scan" /\ pc' = "wait" /\ Ahead = {}
        /\ UNCHANGED <<known, inserting, pooled, queued, pushed, notifying,
                       value, cursor, notFirst, owed>>
    BY DEF EndScan, Leave
  <1>2. TypeOK /\ Numbered
    BY DEF IInv
  <1>3. Q \in Nat /\ Units \in Nat /\ P \in Nat
    BY <1>2, CountTypes
  <1>4. TypeOK' /\ Numbered'
    BY <1>1, <1>2 DEF TypeOK, Numbered
  <1>5. Q' = Q /\ Units' = Units /\ Due = 0 /\ Due' = 0
    BY <1>1 DEF Q, Units, Due
  <1>6. ~PacketAhead
    BY <1>1, <1>2 DEF PacketAhead, Ahead, Numbered
  <1>7. EnoughUnits' /\ FewUnits'
    BY <1>1, <1>3, <1>5, <1>6 DEF IInv, EnoughUnits, FewUnits, P
  <1>8. owed = {}
    <2>1. \A c \in owed : \E k \in queued : k[1] = c /\ c > cursor
      BY DEF IInv, OwedAhead
    <2>2. \A c \in owed : FALSE
      BY <2>1, <1>6 DEF PacketAhead
    <2> QED
      BY <2>2
  <1>9. OwedAhead'
    BY <1>1, <1>8 DEF OwedAhead
  <1> QED
    BY <1>4, <1>7, <1>9 DEF IInv

LEMMA SendStep == ASSUME IInv, Send PROVE IInv'
  <1>1. /\ pc = "send" /\ pc' = (IF notFirst THEN "extra" ELSE "scan")
        /\ notFirst'
        /\ UNCHANGED <<known, inserting, pooled, queued, pushed, notifying,
                       value, cursor, owed>>
    BY DEF Send
  <1>2. TypeOK' /\ Numbered' /\ notFirst \in BOOLEAN
    BY <1>1 DEF Send, IInv, TypeOK, Numbered
  <1>3. Q' = Q /\ Units' = Units /\ Due' = Due
    BY <1>1 DEF Q, Units, Due
  <1>4. EnoughUnits' /\ FewUnits'
    BY <1>1, <1>2, <1>3 DEF IInv, EnoughUnits, FewUnits, P
  <1>5. OwedAhead'
    BY <1>1 DEF IInv, OwedAhead
  <1> QED
    BY <1>2, <1>4, <1>5 DEF IInv

LEMMA ExtraStep == ASSUME IInv, Extra PROVE IInv'
  <1>1. TypeOK /\ Numbered
    BY DEF IInv
  <1>2. /\ Q \in Nat /\ Units \in Nat /\ P \in Nat /\ value \in Nat
        /\ Cardinality(notifying) \in Nat /\ Cardinality(notifying) <= P
        /\ Units = value + Cardinality(notifying)
    BY <1>1, CountTypes
  <1>3. /\ pc = "extra" /\ pc' = "scan"
        /\ value' = (IF value > 0 THEN value - 1 ELSE value)
        /\ UNCHANGED <<known, inserting, pooled, queued, pushed, notifying,
                       cursor, notFirst, owed>>
    BY DEF Extra
  <1>4. TypeOK' /\ Numbered'
    BY <1>1, <1>2, <1>3 DEF TypeOK, Numbered
  <1>5. Q' = Q /\ Units' = value' + Cardinality(notifying)
    BY <1>3 DEF Q, Units
  <1>6. Due = 1 /\ Due' = 0
    BY <1>3 DEF Due
  <1>7. Q + 1 <= Units /\ Units <= Q + P + 1 /\ notFirst
    BY <1>3, <1>6 DEF IInv, EnoughUnits, FewUnits
  <1>8. Q' <= Units' /\ Units' <= Q' + P
    BY <1>2, <1>3, <1>5, <1>7
  <1>9. EnoughUnits' /\ FewUnits' /\ OwedAhead'
    <2>1. Q' + P + 0 = Q' + P
      BY <1>2, <1>5
    <2> QED
      BY <1>3, <1>6, <1>7, <1>8, <2>1
      DEF IInv, EnoughUnits, FewUnits, OwedAhead, P
  <1> QED
    BY <1>4, <1>9 DEF IInv

-----------------------------------------------------------------------------
(* Theorems *)

\* IInv is an invariant.
THEOREM Invariance == Spec => []IInv
  <1>1. IInv /\ [Next]_vars => IInv'
    <2> SUFFICES ASSUME IInv, [Next]_vars PROVE IInv'
      OBVIOUS
    <2>1. CASE (\E c \in Conns : BeginInsert(c)) \/ EndInsert \/ AddToPool
      BY <2>1, InsertStep
    <2>2. CASE \E p \in Producers, c \in Conns : Push(p, c)
      BY <2>2, PushStep
    <2>3. CASE \E p \in Producers : Notify(p)
      BY <2>3, NotifyStep
    <2>4. CASE Wait
      BY <2>4, WaitStep
    <2>5. CASE \E c \in Conns : Visit(c)
      BY <2>5, VisitStep
    <2>6. CASE EndScan
      BY <2>6, EndScanStep
    <2>7. CASE Send
      BY <2>7, SendStep
    <2>8. CASE Extra
      BY <2>8, ExtraStep
    <2>9. CASE UNCHANGED vars
      BY <2>9 DEF vars, transmit, IInv, TypeOK, Numbered, EnoughUnits,
         FewUnits, OwedAhead, PacketAhead, Due, Q, Units
    <2> QED
      BY <2>1, <2>2, <2>3, <2>4, <2>5, <2>6, <2>7, <2>8, <2>9 DEF Next
  <1> QED
    BY <1>1, InitInv, PTL DEF Spec

\* The peers, their queues, the units of the semaphore and the place of the
\* transmit thread in its walk keep their types, for any number of peers,
\* producers and packets.
THEOREM TypeCorrect == Spec => []TypeOK
  <1>1. IInv => TypeOK
    BY DEF IInv
  <1> QED
    BY <1>1, Invariance, PTL

\* The transmit thread never blocks with a packet queued that no unit of the
\* semaphore, present or on its way, stands for.
THEOREM NothingStranded == Spec => []NoStranded
  <1>1. IInv => NoStranded
    BY DEF IInv, EnoughUnits, NoStranded, Q, Units
  <1> QED
    BY <1>1, Invariance, PTL

\* The value of the semaphore stays within one unit per producer of the
\* number of packets queued.
THEOREM SemaphoreBounded == Spec => []NoDrift
  <1>1. IInv => NoDrift
    <2> SUFFICES ASSUME IInv PROVE NoDrift
      OBVIOUS
    <2>1. Q \in Nat /\ Units \in Nat /\ P \in Nat
      BY CountTypes DEF IInv
    <2>2. Due \in Nat /\ (pc = "scan" => Due = 0)
      BY DEF Due
    <2>3. Units <= Q + P + Due
      BY <2>1, <2>2 DEF IInv, FewUnits
    <2> QED
      BY <2>3 DEF NoDrift, Q, P, Units
  <1> QED
    BY <1>1, Invariance, PTL

\* Every walk over the connections serves every connection that had a packet
\* when it began.
THEOREM NobodyStarved == Spec => []NoStarvation
  <1>1. IInv => NoStarvation
    BY DEF IInv, OwedAhead, NoStarvation
  <1> QED
    BY <1>1, Invariance, PTL
-----------------------------------------------------------------------------
(* The rate UDPRateLimit ensures *)

\* The times a packet takes are integers.
LEMMA DurationType ==
    ASSUME Bitrate # 0, NEW bits \in Sizes
    PROVE  Duration(bits) \in Int
  <1>1. Second * bits \in Int
    BY RateAssumption
  <1>2. \A a \in Int, b \in Nat \ {0} : a \div b \in Int
    OBVIOUS
  <1> QED
    BY <1>1, <1>2, RateAssumption DEF Duration

(***************************************************************************)
(* A call of send reads its now after the last packet went out, so the     *)
(* time it sets as the next counts from no earlier than that packet: the   *)
(* one before the last, once the call has sent its own.                    *)
(***************************************************************************)
LimitInv ==
    /\ clock \in Nat /\ nextTime \in Int /\ now \in Nat /\ sent \in Nat
    /\ last \in Nat /\ before \in Nat
    /\ call \in {"idle", "asleep"}
    /\ call = "asleep" => size \in Sizes
    /\ last <= clock
    /\ call = "asleep" => last <= now /\ now <= clock
    /\ sent >= 1 => lastSize \in Sizes
    /\ sent >= 1 /\ Bitrate # 0 => before + Duration(lastSize) <= nextTime
    /\ call = "asleep" => Bitrate # 0

\* What a send does to the bookkeeping, wherever its start is counted from.
LEMMA SendKeeps ==
    ASSUME LimitInv, NEW bits \in Sizes, NEW start \in Nat, last <= start,
           start <= clock, Limit(start, bits), SendTo(bits), clock' = clock,
           call' = "idle", now' \in Nat
    PROVE  LimitInv'
  <1>1. /\ sent' = sent + 1 /\ lastSize' = bits /\ last' = clock
        /\ before' = last /\ sent \in Nat /\ last \in Nat /\ clock \in Nat
    BY DEF SendTo, LimitInv
  <1>2. CASE Bitrate = 0
    BY <1>1, <1>2 DEF LimitInv, Limit
  <1>3. CASE Bitrate # 0
    <2>1. nextTime' = start + Duration(bits) /\ Duration(bits) \in Int
      BY <1>3, DurationType DEF Limit
    <2>2. Duration(lastSize)' = Duration(bits)
      BY <1>1 DEF Duration
    <2>3. before' + Duration(lastSize)' <= nextTime' /\ nextTime' \in Int
      BY <1>1, <2>1, <2>2
    <2> QED
      BY <1>1, <2>2, <2>3 DEF LimitInv
  <1> QED
    BY <1>2, <1>3

LEMMA LimitInvStep == LimitInv /\ [LimitNext]_limitVars => LimitInv'
  <1> SUFFICES ASSUME LimitInv, [LimitNext]_limitVars PROVE LimitInv'
    OBVIOUS
  <1>1. CASE Tick
    <2>1. /\ clock' = clock + 1
          /\ UNCHANGED <<nextTime, call, now, size, sent, last, before, lastSize>>
      BY <1>1 DEF Tick
    <2>2. Duration(lastSize)' = Duration(lastSize)
      BY <2>1 DEF Duration
    <2> QED
      BY <2>1, <2>2 DEF LimitInv
  <1>2. ASSUME NEW bits \in Sizes, SendNow(bits) PROVE LimitInv'
    <2>1. /\ call' = "idle" /\ now' = now /\ clock' = clock
          /\ Limit(clock, bits) /\ SendTo(bits)
      BY <1>2 DEF SendNow
    <2>2. clock \in Nat /\ last <= clock /\ now \in Nat
      BY DEF LimitInv
    <2> QED
      BY <2>1, <2>2, SendKeeps
  <1>3. ASSUME NEW bits \in Sizes, SendLater(bits) PROVE LimitInv'
    <2>1. /\ now' = clock /\ size' = bits /\ call' = "asleep" /\ Bitrate # 0
          /\ UNCHANGED <<clock, nextTime, sent, last, before, lastSize>>
      BY <1>3 DEF SendLater
    <2>2. Duration(lastSize)' = Duration(lastSize)
      BY <2>1 DEF Duration
    <2> QED
      BY <2>1, <2>2 DEF LimitInv
  <1>4. CASE WakeAndSend
    <2>1. /\ call = "asleep" /\ call' = "idle" /\ now' = 0 /\ clock' = clock
          /\ Limit(now, size) /\ SendTo(size)
      BY <1>4 DEF WakeAndSend
    <2>2. now \in Nat /\ last <= now /\ now <= clock /\ size \in Sizes
      BY <2>1 DEF LimitInv
    <2> QED
      BY <2>1, <2>2, SendKeeps
  <1>5. CASE UNCHANGED limitVars
    <2>1. Duration(lastSize)' = Duration(lastSize)
      BY <1>5 DEF limitVars, Duration
    <2> QED
      BY <1>5, <2>1 DEF limitVars, LimitInv
  <1> QED
    BY <1>1, <1>2, <1>3, <1>4, <1>5 DEF LimitNext

\* No packet is sent sooner after the packet before the last than the last
\* takes at the limit: the limiter lets through at most twice its bitrate.
THEOREM TwiceBitrate == LimitSpec => WithinTwiceBitrate
  <1> DEFINE Spaced == sent' = sent + 1 /\ sent >= 2 /\ Bitrate # 0 =>
                           clock >= before + Duration(lastSize)
  <1>1. LimitInit => LimitInv
    BY DEF LimitInit, LimitInv
  <1>2. LimitInv /\ [LimitNext]_limitVars => [Spaced]_<<sent, last>>
    <2> SUFFICES ASSUME LimitInv, [LimitNext]_limitVars, sent' = sent + 1, sent >= 2,
                        Bitrate # 0
                 PROVE  clock >= before + Duration(lastSize)
      OBVIOUS
    <2>1. clock >= nextTime
      <3>1. sent' # sent
        BY DEF LimitInv
      <3>2. CASE Tick
        BY <3>1, <3>2 DEF Tick
      <3>3. ASSUME NEW bits \in Sizes, SendNow(bits) PROVE clock >= nextTime
        BY <3>3 DEF SendNow
      <3>4. ASSUME NEW bits \in Sizes, SendLater(bits) PROVE clock >= nextTime
        BY <3>1, <3>4 DEF SendLater
      <3>5. CASE WakeAndSend
        BY <3>5 DEF WakeAndSend
      <3>6. CASE UNCHANGED limitVars
        BY <3>1, <3>6 DEF limitVars
      <3> QED
        BY <3>2, <3>3, <3>4, <3>5, <3>6 DEF LimitNext
    <2>2. before + Duration(lastSize) <= nextTime /\ lastSize \in Sizes
      BY DEF LimitInv
    <2>3. Duration(lastSize) \in Int
      BY <2>2, DurationType
    <2> QED
      BY <2>1, <2>2, <2>3 DEF LimitInv
  <1> QED
    BY <1>1, <1>2, LimitInvStep, PTL DEF LimitSpec, WithinTwiceBitrate

-----------------------------------------------------------------------------
(* The interface with its socket *)

\* With its socket the interface behaves as UDPTransmit and as UDPRateLimit
\* do, whenever a call of send falls asleep in the middle of a walk.
THEOREM LinkImplements == LinkSpec => Spec /\ LimitSpec
  <1>1. LinkInit => Init /\ LimitInit
    BY DEF LinkInit
  <1>2. [LinkNext]_linkVars => [Next]_vars /\ [LimitNext]_limitVars
    <2> SUFFICES ASSUME [LinkNext]_linkVars
                 PROVE  [Next]_vars /\ [LimitNext]_limitVars
      OBVIOUS
    <2>1. CASE Forward
      BY <2>1 DEF Forward, Next, LimitNext
    <2>2. CASE Tick /\ UNCHANGED vars
      BY <2>2 DEF LimitNext
    <2>3. CASE Elsewhere /\ UNCHANGED limitVars
      BY <2>3 DEF Elsewhere, Next
    <2>4. CASE UNCHANGED linkVars
      BY <2>4 DEF linkVars
    <2> QED
      BY <2>1, <2>2, <2>3, <2>4 DEF LinkNext
  <1> QED
    BY <1>1, <1>2, PTL DEF LinkSpec, Spec, LimitSpec
=============================================================================
