SPECIFICATION Spec
CONSTANTS
    MAX_SAFE_INTEGER = 2
    U64 = 16
    StreamId = "s"
    MaxLines = 2
    LineFaults = {"record_parse_error", "stream_read_error"}
    Genuine <- MCGenuine
    Scenarios <- DocumentedScenario
INVARIANT ValidatesAsDocumented
CHECK_DEADLOCK FALSE
