SPECIFICATION Spec
CONSTANTS
    StreamId = "s"
    U64 = 16
    RecorderCert = "recorder"
    RecorderKey = "recorder_key"
    ConsoleKey = "console"
    OtherKey = "other"
    Scenarios <- MCScenarios
INVARIANTS
    CheckpointTypeOK
    HonestExportExact
    HonestExportAttested
    AttestedGenuine
    UnattestedReported
    CheckpointPrefix
    ReachesHighWater
    SameRangeForksReported
    AttestedBeforeRevocation
CHECK_DEADLOCK FALSE
