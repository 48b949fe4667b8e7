SPECIFICATION Spec
CONSTANTS
    MAX_SAFE_INTEGER = 2
    U64 = 16
    StreamId = "s"
    MaxLines = 2
    LineFaults = {"record_parse_error", "stream_read_error"}
    Genuine <- MCGenuine
    Scenarios <- MCScenarios
INVARIANTS
    BundleTypeOK
    WalkExact
    KeysVouched
    UnreadableReported
    GenuinePasses
PROPERTIES
    PromiseKept
    Terminates
CHECK_DEADLOCK FALSE
