------------------------------ MODULE UDPLink ------------------------------
(***************************************************************************)
(* A UDP interface with its socket.  The walk of UDPInterface::send_packet *)
(* hands each packet to UnixUDPSocket::send, which may put the transmit    *)
(* thread to sleep with the packet popped and its unit perhaps not taken;  *)
(* receive threads push, and make connections, all that time.              *)
(***************************************************************************)
EXTENDS UDPTransmit, UDPRateLimit

linkVars == <<vars, limitVars>>

LinkInit == Init /\ LimitInit

\* socket_->send(packet->data(), conn.first), asleep or not.
Forward ==
    /\ pc = "send"
    /\ \/ \E bits \in Sizes : SendNow(bits) /\ Send
       \/ \E bits \in Sizes : SendLater(bits) /\ UNCHANGED vars
       \/ WakeAndSend /\ Send

\* All that happens but for the calls of socket_->send.
Elsewhere ==
    \/ \E c \in Conns : BeginInsert(c)
    \/ EndInsert
    \/ AddToPool
    \/ \E p \in Producers, c \in Conns : Push(p, c)
    \/ \E p \in Producers : Notify(p)
    \/ Wait
    \/ \E c \in Conns : Visit(c)
    \/ EndScan
    \/ Extra

LinkNext ==
    \/ Forward
    \/ Tick /\ UNCHANGED vars
    \/ Elsewhere /\ UNCHANGED limitVars

LinkSpec == LinkInit /\ [][LinkNext]_linkVars

(***************************************************************************)
(* The fairness of UDPTransmit, with a call of socket_->send for its Send: *)
(* a call that can go on goes on, and time passes while one is asleep.     *)
(***************************************************************************)
Transmit ==
    \/ Forward
    \/ (Wait \/ (\E c \in Conns : Visit(c)) \/ EndScan \/ Extra)
         /\ UNCHANGED limitVars

LinkFairness ==
    /\ WF_linkVars((EndInsert \/ AddToPool) /\ UNCHANGED limitVars)
    /\ \A p \in Producers : WF_linkVars(Notify(p) /\ UNCHANGED limitVars)
    /\ WF_linkVars(Transmit)
    /\ WF_linkVars(call = "asleep" /\ Tick /\ UNCHANGED vars)

FairLinkSpec == LinkSpec /\ LinkFairness
=============================================================================
