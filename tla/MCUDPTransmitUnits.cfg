\* What wait_for_packet says of its result, against what the units do.
CONSTANTS
    p1 = p1
    p2 = p2
    Conns = {1, 2, 3}
    Producers = {p1, p2}
    MaxPushes = 4
SPECIFICATION Spec
INVARIANT TrueMeansPacket
CHECK_DEADLOCK FALSE
