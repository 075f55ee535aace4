\* A document that configuration.md does not allow, or reads otherwise.
CONSTANTS
    Names = {"inner", "x", "tty"}
    Types = {"PING", "HEARTBEAT", "BOGUS"}
    KnownTypes = {"PING", "HEARTBEAT"}
    Numbers <- MCNumbers
    Situations <- MCUndocumented
    Slip <- MCSlip
    Probes <- MCProbes
    Parsed <- MCParsed
    TreeLines <- MCTreeLines
SPECIFICATION Spec
INVARIANT AsDocumented
CHECK_DEADLOCK FALSE
