SPECIFICATION HonestSpec
CONSTANTS
    MAX_SAFE_INTEGER = 2
    StreamId = s1
    Streams = {s1, s2}
    Segments = {A, B, C}
    MalformedIds = {}
    Seqs = {0, 1, 2, 3}
    Walls <- TwoWalls
    Monos = {0, 1, 3}
    RecordTypes = {"operation", "clock_anomaly"}
    Contents = {"c1"}
    OtherHashes = {}
    PrevHashKinds = {}
    LineFaults = {}
    MaxLines = 4
    MaxRecords = 3
    StaleHeads = TRUE
INVARIANTS
    NoFalseAlarm
    RollbackReported
CHECK_DEADLOCK FALSE
