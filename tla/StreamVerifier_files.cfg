SPECIFICATION FileSpec
CONSTANTS
    MAX_SAFE_INTEGER = 2
    StreamId = s1
    Streams = {s1, s2}
    Segments = {A, B}
    MalformedIds = {B}
    Seqs = {0, 1, 2}
    Walls <- MCWalls
    Monos = {0, 1}
    RecordTypes = {"operation", "clock_anomaly", "lifecycle", "coverage_gap"}
    Contents = {"c1", "segment_end"}
    OtherHashes <- BadHash
    PrevHashKinds = {"genesis", "break", "earlier"}
    LineFaults = {"record_parse_error", "record_invalid", "stream_read_error"}
    MaxLines = 3
INVARIANTS
    VerifierTypeOK
    SeqRulesHold
    LinksBindContent
    HashIndexFaithful
    ClockRulesHold
    EndsReported
CHECK_DEADLOCK FALSE
