SPECIFICATION AnySpec
CONSTANTS
    MAX_SAFE_INTEGER = 2
    StreamId = s1
    Streams = {s1}
    Segments = {A, B, C}
    MalformedIds = {}
    Seqs = {0, 1, 2}
    Walls <- OneWall
    Monos = {0}
    RecordTypes = {"operation"}
    Contents = {"c1"}
    OtherHashes = {}
    PrevHashKinds = {"link", "break"}
    LineFaults = {}
    MaxLines = 3
    MaxRecords = 3
    StaleHeads = FALSE
INVARIANT TamperEvidence
PROPERTY KeepsEvidence
ACTION_CONSTRAINT RecorderFirst
CONSTRAINT OnlyClean
CHECK_DEADLOCK FALSE
