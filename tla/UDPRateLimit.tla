---------------------------- MODULE UDPRateLimit ----------------------------
(***************************************************************************)
(* The rate limit of a UDP socket (UnixUDPSocket::send in                  *)
(* src/src/UnixUDPSocket.cpp), called by one transmit thread.  Time is     *)
(* discrete; a tick stands for a microsecond.  The system call takes no    *)
(* time here, a sleep may take longer than asked.                          *)
(***************************************************************************)
EXTENDS Integers

CONSTANTS
    Bitrate,      \* max_bitrate_, in bits per second; 0 is no limit
    Sizes,        \* bits of a packet
    Second,       \* ticks of a second: 10^6 in the program
    MaxTime,      \* bound: the time from which it passes in sleeps only
    MaxSends      \* bound: the number of packets sent

ASSUME RateAssumption == Bitrate \in Nat /\ Second \in Nat /\ Sizes \subseteq Nat
ASSUME LimitBoundsAssumption == MaxTime \in Nat /\ MaxSends \in Nat

VARIABLES
    clock,        \* steady_clock::now()
    nextTime,     \* next_time_
    call,         \* "idle", or "asleep" in sleep_for
    now,          \* the local now of a call that sleeps, 0 if none does
    size,         \* data.size() * 8 of that call
    sent,         \* history: number of packets sent
    last,         \* history: when the last packet was sent
    before,       \* history: when the packet before it was sent
    lastSize      \* history: the bits of the last packet

limitVars == <<clock, nextTime, call, now, size, sent, last, before, lastSize>>

\* The time a packet of so many bits takes at the limit, truncated.
Duration(bits) == (Second * bits) \div Bitrate

LimitInit ==
    /\ clock = 0
    /\ nextTime = 0
    /\ call = "idle"
    /\ now = 0
    /\ size = 0
    /\ sent = 0
    /\ last = 0
    /\ before = 0
    /\ lastSize = 0

\* From MaxTime on a sleep ends in time or a tick late.
Tick ==
    /\ clock < MaxTime \/ (call = "asleep" /\ clock <= nextTime)
    /\ clock' = clock + 1
    /\ UNCHANGED <<nextTime, call, now, size, sent, last, before, lastSize>>

\* sendto, with the bookkeeping of the history.
SendTo(bits) ==
    /\ sent' = sent + 1
    /\ lastSize' = bits
    /\ last' = clock
    /\ before' = last

\* Mutant of Limit: the time of the packet is forgotten.
LimitByStart(start, bits) == nextTime' = start

\* The assignment to next_time_.
Limit(start, bits) ==
    IF Bitrate = 0 THEN UNCHANGED nextTime
                   ELSE nextTime' = start + Duration(bits)

\* A call of send that need not wait.
SendNow(bits) ==
    /\ call = "idle"
    /\ sent < MaxSends
    /\ Bitrate = 0 \/ clock >= nextTime
    /\ Limit(clock, bits)
    /\ SendTo(bits)
    /\ UNCHANGED <<clock, call, now, size>>

\* A call of send that has to sleep until nextTime.
SendLater(bits) ==
    /\ call = "idle"
    /\ sent < MaxSends
    /\ Bitrate # 0 /\ clock < nextTime
    /\ now' = clock
    /\ size' = bits
    /\ call' = "asleep"
    /\ UNCHANGED <<clock, nextTime, sent, last, before, lastSize>>

(***************************************************************************)
(* The sleep is over.  The next limit counts from the time before it, not  *)
(* from the time at which the packet goes out.                             *)
(***************************************************************************)
WakeAndSend ==
    /\ call = "asleep"
    /\ clock >= nextTime
    /\ call' = "idle"
    /\ now' = 0
    /\ size' = 0
    /\ Limit(now, size)
    /\ SendTo(size)
    /\ UNCHANGED clock

LimitNext ==
    \/ Tick
    \/ \E bits \in Sizes : SendNow(bits) \/ SendLater(bits)
    \/ WakeAndSend

LimitSpec == LimitInit /\ [][LimitNext]_limitVars

-----------------------------------------------------------------------------
(* Properties *)

(***************************************************************************)
(* "the bitrate limit (in bits per second) when transmitting packets over  *)
(* UDP" (doc/configuration.md:229): after a packet the line is left free   *)
(* for the time the packet takes at the limit.                             *)
(***************************************************************************)
WithinBitrate ==
    [][sent' = sent + 1 /\ sent >= 1 /\ Bitrate # 0 =>
           clock >= last + Duration(lastSize)]_<<sent, last>>

(***************************************************************************)
(* What the code does ensure: from the packet before a packet to the one   *)
(* after it passes the time the one in the middle takes.  So no more than  *)
(* twice the bitrate is sent, however the calls and the sleeps fall.       *)
(***************************************************************************)
WithinTwiceBitrate ==
    [][sent' = sent + 1 /\ sent >= 2 /\ Bitrate # 0 =>
           clock >= before + Duration(lastSize)]_<<sent, last>>
=============================================================================
