\* Two producers and two consumers; eight pushes wrap the six tickets.  No
\* symmetry: the liveness properties speak of single threads.
CONSTANTS
    p1 = p1
    p2 = p2
    c1 = c1
    c2 = c2
    pkt = pkt
    Producers = {p1, p2}
    Consumers = {c1, c2}
    Packets = {pkt}
    Priorities = {0, 1}
    Half = 3
    MaxPushes = 8
SPECIFICATION FairSpec
INVARIANTS TypeOK NoLostWakeup CloseReleases
PROPERTIES BufferSpec KeepsServing TimedPopReturns
