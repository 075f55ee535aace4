\* Three interfaces, so six worker threads; a second SIGINT during shutdown.
CONSTANTS
    N = 3
    MaxSignals = 2
SPECIFICATION Spec
INVARIANTS TypeOK Serving RunReturnsQuiet ShutdownNeverAborts FailedStartAborts
PROPERTY InterruptEnds
