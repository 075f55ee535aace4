---------------------------- MODULE PacketQueue ----------------------------
(***************************************************************************)
(* The priority queue of packets behind every connection                   *)
(* (src/src/PacketQueue.cpp), with the threads that push and the threads   *)
(* that pop.                                                               *)
(*                                                                         *)
(* Each critical section of mutex_ is one action.  What happens outside    *)
(* the lock is a step of its own: push notifies after it unlocked, close   *)
(* notifies after it unlocked, and a waiter of the condition variable that *)
(* was notified, that timed out or that woke spuriously rechecks only when *)
(* it gets the lock back.                                                  *)
(***************************************************************************)
EXTENDS QueuedPacket, FiniteSets

CONSTANTS
    Producers,    \* threads that push
    Consumers,    \* threads that pop
    Packets,
    Priorities,
    MaxPushes     \* bound: the number of pushes of a behaviour

ASSUME PushesAssumption == MaxPushes \in Nat
ASSUME PrioritiesAssumption == Priorities \subseteq Int
ASSUME ThreadsAssumption == IsFiniteSet(Producers) /\ IsFiniteSet(Consumers)

VARIABLES
    queue,        \* queue_: set of [packet, priority, ticket]
    ticket,       \* ticket_
    running,      \* running_
    closing,      \* close unlocked, notify_all still to come
    pushing,      \* producers between the unlock and notify_one of push
    state,        \* consumer -> "idle", "asleep" in a wait, "woken" from it
    timed,        \* consumer -> its wait has a deadline
    expired,      \* consumer -> the deadline has passed
    pushed        \* history: number of packets pushed so far

vars == <<queue, ticket, running, closing, pushing, state, timed, expired,
          pushed>>

QueuedPackets == [packet : Packets, priority : Priorities, ticket : Ticket]

Asleep == {c \in Consumers : state[c] = "asleep"}
Woken  == {c \in Consumers : state[c] = "woken"}

TypeOK ==
    /\ queue \in SUBSET QueuedPackets
    /\ IsFiniteSet(queue)
    /\ ticket \in Ticket
    /\ running \in BOOLEAN
    /\ closing \in BOOLEAN
    /\ pushing \in SUBSET Producers
    /\ state \in [Consumers -> {"idle", "asleep", "woken"}]
    /\ timed \in [Consumers -> BOOLEAN]
    /\ expired \in [Consumers -> BOOLEAN]
    /\ pushed \in 0 .. MaxPushes

Init ==
    /\ queue = {}
    /\ ticket = 0
    /\ running = TRUE
    /\ closing = FALSE
    /\ pushing = {}
    /\ state = [c \in Consumers |-> "idle"]
    /\ timed = [c \in Consumers |-> FALSE]
    /\ expired = [c \in Consumers |-> FALSE]
    /\ pushed = 0

-----------------------------------------------------------------------------
(* push *)

\* Mutant of Push: only the push that finds the queue empty notifies.
PushNotifyingIfEmpty(p, pkt, prio) ==
    /\ p \notin pushing
    /\ \A x \in queue : Age(ticket, x) \in 1 .. Half - 1
    /\ pushed < MaxPushes
    /\ queue' = queue \cup
           {[packet |-> pkt, priority |-> prio, ticket |-> ticket]}
    /\ ticket' = NextTicket(ticket)
    /\ pushing' = IF queue = {} THEN pushing \cup {p} ELSE pushing
    /\ pushed' = pushed + 1
    /\ UNCHANGED <<running, closing, state, timed, expired>>

(***************************************************************************)
(* The locked part of push.  The second guard is the precondition of the   *)
(* ordering (QueuedPacket.cpp:108): the program cannot hold 2^63 packets,  *)
(* a queue of the model with its few tickets could.                        *)
(***************************************************************************)
Push(p, pkt, prio) ==
    LET new == [packet |-> pkt, priority |-> prio, ticket |-> ticket]
    IN  /\ p \notin pushing
        /\ \A x \in queue : Age(ticket, x) \in 1 .. Half - 1
        /\ pushed < MaxPushes
        /\ queue' = queue \cup {new}
        /\ ticket' = NextTicket(ticket)
        /\ pushing' = pushing \cup {p}
        /\ pushed' = pushed + 1
        /\ UNCHANGED <<running, closing, state, timed, expired>>

\* Mutant of NotifyOne: nobody is woken.
NotifyNobody(p) ==
    /\ p \in pushing
    /\ pushing' = pushing \ {p}
    /\ UNCHANGED <<queue, ticket, running, closing, state, timed, expired,
                   pushed>>

\* cv_.notify_one: any one of the waiters, if there is one.
NotifyOne(p) ==
    /\ p \in pushing
    /\ pushing' = pushing \ {p}
    /\ IF Asleep = {}
         THEN UNCHANGED state
         ELSE \E c \in Asleep : state' = [state EXCEPT ![c] = "woken"]
    /\ UNCHANGED <<queue, ticket, running, closing, timed, expired, pushed>>

-----------------------------------------------------------------------------
(* close *)

\* The locked part of close.
Close ==
    /\ running' = FALSE
    /\ closing' = TRUE
    /\ UNCHANGED <<queue, ticket, pushing, state, timed, expired, pushed>>

\* Mutant of NotifyAll: notify_one in its place.
NotifyAllButOne ==
    /\ closing
    /\ closing' = FALSE
    /\ IF Asleep = {}
         THEN UNCHANGED state
         ELSE \E c \in Asleep : state' = [state EXCEPT ![c] = "woken"]
    /\ UNCHANGED <<queue, ticket, running, pushing, timed, expired, pushed>>

\* cv_.notify_all.
NotifyAll ==
    /\ closing
    /\ closing' = FALSE
    /\ state' = [c \in Consumers |->
                    IF state[c] = "asleep" THEN "woken" ELSE state[c]]
    /\ UNCHANGED <<queue, ticket, running, pushing, timed, expired, pushed>>

-----------------------------------------------------------------------------
(* pop *)

\* queue_.top: a packet that is less than no other.
Tops == {x \in queue : \A y \in queue : ~Less(x, y)}

\* The condition the waits of both pops are for.
Ready == ~running \/ queue # {}

(***************************************************************************)
(* get_packet_, called by a pop that holds the lock.  The pop then returns *)
(* what it got, a packet or nullptr.                                       *)
(***************************************************************************)
GetPacket ==
    IF running /\ queue # {}
      THEN \E x \in Tops : queue' = queue \ {x}
      ELSE UNCHANGED queue

\* pop with a timeout of zero, how the UDP interface polls its connections.
PopNow(c) ==
    /\ state[c] = "idle"
    /\ GetPacket
    /\ UNCHANGED <<ticket, running, closing, pushing, state, timed, expired,
                   pushed>>

(***************************************************************************)
(* pop() when withDeadline is FALSE, pop(timeout) with a timeout above     *)
(* zero when it is TRUE: the wait returns at once when the condition holds *)
(* already.                                                                *)
(***************************************************************************)
Pop(c, withDeadline) ==
    /\ state[c] = "idle"
    /\ IF Ready
         THEN GetPacket /\ UNCHANGED <<state, timed, expired>>
         ELSE /\ state' = [state EXCEPT ![c] = "asleep"]
              /\ timed' = [timed EXCEPT ![c] = withDeadline]
              /\ expired' = [expired EXCEPT ![c] = FALSE]
              /\ UNCHANGED queue
    /\ UNCHANGED <<ticket, running, closing, pushing, pushed>>

\* The deadline passes; the waiter may be notified before it rechecks.
Expire(c) ==
    /\ state[c] = "asleep"
    /\ timed[c]
    /\ state' = [state EXCEPT ![c] = "woken"]
    /\ expired' = [expired EXCEPT ![c] = TRUE]
    /\ UNCHANGED <<queue, ticket, running, closing, pushing, timed, pushed>>

SpuriousWake(c) ==
    /\ state[c] = "asleep"
    /\ state' = [state EXCEPT ![c] = "woken"]
    /\ UNCHANGED <<queue, ticket, running, closing, pushing, timed, expired,
                   pushed>>

\* Mutant of Recheck: a wait that timed out starts again.
RecheckIgnoringTimeout(c) ==
    /\ state[c] = "woken"
    /\ IF Ready
         THEN GetPacket /\ state' = [state EXCEPT ![c] = "idle"]
         ELSE state' = [state EXCEPT ![c] = "asleep"] /\ UNCHANGED queue
    /\ UNCHANGED <<ticket, running, closing, pushing, timed, expired, pushed>>

\* A woken waiter has the lock back: it returns, or waits again.
Recheck(c) ==
    /\ state[c] = "woken"
    /\ IF Ready \/ expired[c]
         THEN GetPacket /\ state' = [state EXCEPT ![c] = "idle"]
         ELSE state' = [state EXCEPT ![c] = "asleep"] /\ UNCHANGED queue
    /\ UNCHANGED <<ticket, running, closing, pushing, timed, expired, pushed>>

-----------------------------------------------------------------------------
Next ==
    \/ \E p \in Producers, pkt \in Packets, prio \in Priorities :
           Push(p, pkt, prio)
    \/ \E p \in Producers : NotifyOne(p)
    \/ Close
    \/ NotifyAll
    \/ \E c \in Consumers :
           \/ PopNow(c)
           \/ \E withDeadline \in BOOLEAN : Pop(c, withDeadline)
           \/ Expire(c)
           \/ SpuriousWake(c)
           \/ Recheck(c)

Spec == Init /\ [][Next]_vars

(***************************************************************************)
(* Threads that have started a call get to run, deadlines pass, and a      *)
(* consumer calls pop(timeout) again and again (tx_runner_, via            *)
(* SerialInterface::send_packet).  Expire is strongly fair because a       *)
(* deadline is a point in time: a wait that is entered again after it, for *)
(* instance after a spurious wakeup, times out at once.  Nothing obliges   *)
(* anyone to push or to close.                                             *)
(***************************************************************************)
Fairness ==
    /\ \A p \in Producers : WF_vars(NotifyOne(p))
    /\ WF_vars(NotifyAll)
    /\ \A c \in Consumers :
           /\ WF_vars(Pop(c, TRUE))
           /\ SF_vars(Expire(c))
           /\ WF_vars(Recheck(c))

FairSpec == Spec /\ Fairness

-----------------------------------------------------------------------------
(* Properties *)

(***************************************************************************)
(* No wakeup is lost: while a consumer sleeps, every queued packet has a   *)
(* consumer on its way to take it, or a producer on its way to wake one.   *)
(* push notifies after it released the lock, so between the two a consumer *)
(* may sleep next to a queued packet (PacketQueue.cpp:173-177).            *)
(***************************************************************************)
NoLostWakeup ==
    running /\ Asleep # {} =>
        Cardinality(queue) <= Cardinality(Woken) + Cardinality(pushing)

(***************************************************************************)
(* close releases every blocking pop (PacketQueue.cpp:66): once its        *)
(* notify_all is done nobody sleeps, and nobody can go to sleep again.     *)
(***************************************************************************)
CloseReleases == ~running /\ ~closing => Asleep = {}

(***************************************************************************)
(* The queue, threads and wrapping tickets included, behaves as the atomic *)
(* buffer of PriorityBuffer: highest priority first, arrival order among   *)
(* equals, nothing handed out once closed.  The arrival number of a queued *)
(* packet is counted back from the pushes by the tickets drawn since.      *)
(***************************************************************************)
Arrived(x) == [packet   |-> x.packet,
               priority |-> x.priority,
               arrival  |-> pushed - Age(ticket, x)]

Buffer == INSTANCE PriorityBuffer WITH
              buffer   <- {Arrived(x) : x \in queue},
              arrivals <- pushed,
              open     <- running

BufferSpec == Buffer!Spec

(***************************************************************************)
(* While packets are queued they keep being taken, unless the queue gets   *)
(* closed: no packet is stranded among sleeping consumers.  Which packet   *)
(* is taken is up to the priorities, so one of low priority may wait for   *)
(* as long as others keep coming.                                          *)
(***************************************************************************)
Taken == pushed - Cardinality(queue)

KeepsServing ==
    \A n \in 0 .. MaxPushes :
        queue # {} /\ Taken = n ~> Taken > n \/ ~running

\* A pop with a deadline returns, whoever else pushes, pops or closes.
TimedPopReturns ==
    \A c \in Consumers : state[c] # "idle" /\ timed[c] ~> state[c] = "idle"
=============================================================================
