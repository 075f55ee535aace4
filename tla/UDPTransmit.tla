---------------------------- MODULE UDPTransmit ----------------------------
(***************************************************************************)
(* The transmit side of a UDP interface: the packet queues of its          *)
(* connections, the semaphore of its connection factory that is notified   *)
(* once for each packet queued (src/src/ConnectionFactory.hpp), and the    *)
(* walk of UDPInterface::send_packet over the connections.                 *)
(*                                                                         *)
(* Three kinds of thread meet here: receive threads of any interface push  *)
(* (the producers), the interface's receive thread makes connections for   *)
(* new peers, and its transmit thread sends.  A queue is a PriorityBuffer  *)
(* polled with a timeout of zero: which of its packets comes first makes   *)
(* no difference here, so a pop takes any one.                             *)
(***************************************************************************)
EXTENDS Integers, FiniteSets

CONSTANTS
    Conns,        \* IP addresses of peers, numbered in the order of the map
    Producers,    \* threads that push
    MaxPushes     \* bound: the number of packets of a behaviour

ASSUME ConnsAssumption == Conns \subseteq Nat \ {0} /\ IsFiniteSet(Conns)
ASSUME ProducersAssumption == IsFiniteSet(Producers)
ASSUME BoundsAssumption == MaxPushes \in Nat

None == 0         \* no connection; also the start of the map

VARIABLES
    known,        \* connections_
    inserting,    \* the peer the receive thread is making a connection for
    pooled,       \* connections the ConnectionPool has
    queued,       \* packets in the queues: <<connection, number>>
    pushed,       \* number of packets pushed so far
    notifying,    \* producers that pushed and have not notified semaphore_
    value,        \* value_ of semaphore_
    pc,           \* transmit thread: "wait", "scan", "send", "extra"
    cursor,       \* last connection visited by the walk
    notFirst,     \* not_first
    owed          \* history: had a packet when the walk began, not yet served

vars == <<known, inserting, pooled, queued, pushed, notifying, value, pc,
          cursor, notFirst, owed>>

Packet == Conns \X (1 .. MaxPushes)

TypeOK ==
    /\ known \in SUBSET Conns
    /\ inserting \in Conns \cup {None}
    /\ pooled \in SUBSET known
    /\ queued \in SUBSET Packet
    /\ pushed \in 0 .. MaxPushes
    /\ notifying \in SUBSET Producers
    /\ value \in Nat
    /\ pc \in {"wait", "scan", "send", "extra"}
    /\ cursor \in Conns \cup {None}
    /\ notFirst \in BOOLEAN
    /\ owed \in SUBSET Conns

Init ==
    /\ known = {}
    /\ inserting = None
    /\ pooled = {}
    /\ queued = {}
    /\ pushed = 0
    /\ notifying = {}
    /\ value = 0
    /\ pc = "wait"
    /\ cursor = None
    /\ notFirst = FALSE
    /\ owed = {}

transmit == <<pc, cursor, notFirst, owed>>

-----------------------------------------------------------------------------
(* The interface's receive thread: update_connections_ *)

\* The peer is not in the map; the insertion takes a while.
BeginInsert(c) ==
    /\ inserting = None
    /\ c \notin known
    /\ inserting' = c
    /\ UNCHANGED <<known, pooled, queued, pushed, notifying, value, transmit>>

EndInsert ==
    /\ inserting \notin known \cup {None}
    /\ known' = known \cup {inserting}
    /\ UNCHANGED <<inserting, pooled, queued, pushed, notifying, value,
                   transmit>>

\* connection_pool_->add: from here on the connection gets packets.
AddToPool ==
    /\ inserting \in known
    /\ pooled' = pooled \cup {inserting}
    /\ inserting' = None
    /\ UNCHANGED <<known, queued, pushed, notifying, value, transmit>>

-----------------------------------------------------------------------------
(* Producers: PacketQueue::push and its callback *)

\* Mutant of Push: the semaphore is notified when the queue was empty only.
PushNotifyingIfEmpty(p, c) ==
    /\ p \notin notifying
    /\ c \in pooled
    /\ pushed < MaxPushes
    /\ pushed' = pushed + 1
    /\ queued' = queued \cup {<<c, pushed + 1>>}
    /\ notifying' = IF \E k \in queued : k[1] = c THEN notifying
                                                  ELSE notifying \cup {p}
    /\ UNCHANGED <<known, inserting, pooled, value, transmit>>

Push(p, c) ==
    /\ p \notin notifying
    /\ c \in pooled
    /\ pushed < MaxPushes
    /\ pushed' = pushed + 1
    /\ queued' = queued \cup {<<c, pushed + 1>>}
    /\ notifying' = notifying \cup {p}
    /\ UNCHANGED <<known, inserting, pooled, value, transmit>>

\* The callback: semaphore_.notify().
Notify(p) ==
    /\ p \in notifying
    /\ notifying' = notifying \ {p}
    /\ value' = value + 1
    /\ UNCHANGED <<known, inserting, pooled, queued, pushed, transmit>>

-----------------------------------------------------------------------------
(* The transmit thread: UDPInterface::send_packet *)

(***************************************************************************)
(* wait_for_packet(timeout) returns true.  When it times out send_packet   *)
(* returns and is called again, which changes nothing.                     *)
(***************************************************************************)
Wait ==
    /\ pc = "wait"
    /\ value > 0
    /\ value' = value - 1
    /\ pc' = "scan"
    /\ cursor' = None
    /\ notFirst' = FALSE
    /\ owed' = {k[1] : k \in queued}
    /\ UNCHANGED <<known, inserting, pooled, queued, pushed, notifying>>

Ahead == {c \in known : c > cursor}

(***************************************************************************)
(* Nothing locks connections_.  In this module a peer enters the map in    *)
(* one step, so the walk always goes to the least address ahead of it;     *)
(* UDPMapRace looks at walks beside the pointer writes of an insertion.    *)
(***************************************************************************)
Following(c) == c \in Ahead /\ \A d \in Ahead : c <= d

\* The walk is at connection c: its next_packet().
Serve(c) ==
    /\ cursor' = c
    /\ IF \E k \in queued : k[1] = c
         THEN /\ \E k \in queued : k[1] = c /\ queued' = queued \ {k}
              /\ pc' = "send"
              /\ owed' = owed \ {c}
         ELSE UNCHANGED <<queued, pc, owed>>
    /\ UNCHANGED <<known, inserting, pooled, pushed, notifying, value,
                   notFirst>>

\* The walk is past the last connection, and send_packet returns.
Leave ==
    /\ pc' = "wait"
    /\ UNCHANGED <<known, inserting, pooled, queued, pushed, notifying, value,
                   cursor, notFirst, owed>>

\* Mutant of Visit: the walk stops at the first connection without a packet.
VisitUntilEmpty(c) ==
    /\ pc = "scan"
    /\ Following(c)
    /\ IF \E k \in queued : k[1] = c THEN Serve(c) ELSE Leave

\* The next connection of the walk.
Visit(c) ==
    /\ pc = "scan"
    /\ Following(c)
    /\ Serve(c)

EndScan ==
    /\ pc = "scan"
    /\ Ahead = {}
    /\ Leave

\* socket_->send returns; the first packet is paid for already.
Send ==
    /\ pc = "send"
    /\ pc' = IF notFirst THEN "extra" ELSE "scan"
    /\ notFirst' = TRUE
    /\ UNCHANGED <<known, inserting, pooled, queued, pushed, notifying, value,
                   cursor, owed>>

\* Mutant of Extra: extra packets are not taken off the semaphore.
ExtraUnpaid ==
    /\ pc = "extra"
    /\ pc' = "scan"
    /\ UNCHANGED <<known, inserting, pooled, queued, pushed, notifying, value,
                   cursor, notFirst, owed>>

\* Mutant of Extra: one down whether or not the value is above zero.
ExtraUnchecked ==
    /\ pc = "extra"
    /\ pc' = "scan"
    /\ value' = value - 1
    /\ UNCHANGED <<known, inserting, pooled, queued, pushed, notifying,
                   cursor, notFirst, owed>>

\* wait_for_packet(0s): one down for an extra packet, if it was notified.
Extra ==
    /\ pc = "extra"
    /\ pc' = "scan"
    /\ value' = IF value > 0 THEN value - 1 ELSE value
    /\ UNCHANGED <<known, inserting, pooled, queued, pushed, notifying,
                   cursor, notFirst, owed>>

-----------------------------------------------------------------------------
Next ==
    \/ \E c \in Conns : BeginInsert(c)
    \/ EndInsert
    \/ AddToPool
    \/ \E p \in Producers, c \in Conns : Push(p, c)
    \/ \E p \in Producers : Notify(p)
    \/ Wait
    \/ \E c \in Conns : Visit(c)
    \/ EndScan
    \/ Send
    \/ Extra

Spec == Init /\ [][Next]_vars

(***************************************************************************)
(* Every thread that is in the middle of a call gets to run, and           *)
(* tx_runner_ calls send_packet for ever.  No packet need ever be pushed   *)
(* and no peer need ever appear.                                           *)
(***************************************************************************)
Fairness ==
    /\ WF_vars(EndInsert \/ AddToPool)
    /\ \A p \in Producers : WF_vars(Notify(p))
    /\ WF_vars(Wait \/ (\E c \in Conns : Visit(c)) \/ EndScan \/ Send \/ Extra)

FairSpec == Spec /\ Fairness

-----------------------------------------------------------------------------
(* Properties *)

(***************************************************************************)
(* No packet is stranded: whenever the transmit thread is about to block   *)
(* on the semaphore, the semaphore holds, or is about to be given, a unit  *)
(* for every packet still queued.  One unit may stand for a packet that    *)
(* was sent already, never the other way round, although send_packet       *)
(* takes packets and units at different moments.                           *)
(***************************************************************************)
NoStranded ==
    pc = "wait" => Cardinality(queued) <= value + Cardinality(notifying)

(***************************************************************************)
(* The semaphore does not drift: it runs ahead of the queues by no more    *)
(* than one unit for each producer, the extra packets whose unit had not   *)
(* arrived when wait_for_packet(0s) looked (UDPInterface.cpp:122).         *)
(***************************************************************************)
Due == IF pc = "extra" \/ (pc = "send" /\ notFirst) THEN 1 ELSE 0

NoDrift ==
    value + Cardinality(notifying) <=
        Cardinality(queued) + Cardinality(Producers) + Due

(***************************************************************************)
(* "An interface must not starve any one of the Interface's connections"   *)
(* (Interface.hpp:39): when a walk over the connections ends, every        *)
(* connection that had a packet when it began has had one sent.            *)
(***************************************************************************)
NoStarvation == pc = "wait" => owed = {}

(***************************************************************************)
(* Every packet queued is sent in the end, and then the transmit thread    *)
(* comes to rest: units left over do not keep it walking empty queues.     *)
(***************************************************************************)
SentAndRests == <>[](queued = {} /\ value = 0 /\ pc = "wait")

(***************************************************************************)
(* What wait_for_packet says of its result true, "There is a packet on at  *)
(* lest one of the connections" (ConnectionFactory.hpp:103).               *)
(***************************************************************************)
TrueMeansPacket == pc = "scan" /\ cursor = None => queued # {}
=============================================================================
