\* Three connections of two interfaces; the timeout is one tick of time.
CONSTANTS
    serial = serial
    udp = udp
    None = None
    MaxPriority = 9
    Reject = Reject
    Threads = {serial, udp}
    Conns = {1, 2, 3}
    Interface <- MCInterface
    Serial = {1}
    Mirrors = {}
    Addresses <- MCAddresses
    Packets <- MCPackets
    Filters <- MCFilters
    Preloads <- MCPreloads
    Timeout = 1
    MaxTime = 2
    MaxReceived = 3
SPECIFICATION Spec
INVARIANTS TypeOK NoEcho Justified Delivered
CHECK_DEADLOCK FALSE
