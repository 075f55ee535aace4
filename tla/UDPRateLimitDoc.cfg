\* Packets of 8 bits, each of which takes 4 ticks at the limit.
CONSTANTS
    Bitrate = 2
    Sizes = {8}
    Second = 1
    MaxTime = 14
    MaxSends = 5
SPECIFICATION LimitSpec
PROPERTY WithinBitrate
CHECK_DEADLOCK FALSE
