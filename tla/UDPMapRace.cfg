\* The walk over connections_ beside the insertion of a third peer.
CONSTANTS
    Conns = {1, 2, 3}
    Producers = {p1}
    MaxPushes = 2
SPECIFICATION RaceSpec
INVARIANT NoStarvation
CHECK_DEADLOCK FALSE
