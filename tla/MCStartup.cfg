\* Documents without slips in families, slips in three of them, and every
\* command line with every set of files.
CONSTANTS
    Names = {"inner", "x", "tty"}
    Types = {"PING", "HEARTBEAT", "BOGUS"}
    KnownTypes = {"PING", "HEARTBEAT"}
    Numbers <- MCNumbers
    Situations <- MCSituations
    Slip <- MCSlip
    Probes <- MCProbes
    Parsed <- MCParsed
    TreeLines <- MCTreeLines
SPECIFICATION Spec
INVARIANTS TypeOK TreeIsText BuiltAsWritten ConditionsAsWritten
INVARIANTS PrintedReadsBack ComparisonsAgree RightFile
CHECK_DEADLOCK FALSE
