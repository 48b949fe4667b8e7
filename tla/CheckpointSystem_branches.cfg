SPECIFICATION Spec
CONSTANTS
    StreamId = "s"
    U64 = 16
    RecorderCert = "recorder"
    RecorderKey = "recorder_key"
    ConsoleKey = "console"
    OtherKey = "other"
    Scenarios <- MCScenarios
INVARIANTS
    BranchesReported
CHECK_DEADLOCK FALSE
