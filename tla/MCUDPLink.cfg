\* Three peers appear one by one while two threads push packets, which take
\* one or two ticks each on the line.
CONSTANTS
    p1 = p1
    p2 = p2
    Conns = {1, 2, 3}
    Producers = {p1, p2}
    MaxPushes = 5
    Bitrate = 2
    Sizes = {3, 4}
    Second = 1
    MaxTime = 1
    MaxSends = 5
SPECIFICATION FairLinkSpec
INVARIANTS TypeOK NoStranded NoDrift NoStarvation
PROPERTIES SentAndRests WithinTwiceBitrate
CHECK_DEADLOCK FALSE
