--------------------------- MODULE StreamVerifier ---------------------------
(***************************************************************************)
(* Chain verification of one stream: StreamVerifier::verify_next           *)
(* (crates/evidence/src/chain.rs) inside verify_stream_chain               *)
(* (crates/verify/src/engine.rs).  The exported file is not trusted, so    *)
(* the next line is any record over the constants, or a line that is not a *)
(* record at all.  Findings accumulate; reading never stops at one.        *)
(***************************************************************************)
EXTENDS Digests, FiniteSets

CONSTANTS
    MalformedIds,   \* the ids that are not ULIDs
    Seqs,           \* sequence numbers a line may carry
    OtherHashes,    \* digests that are the hash of nothing in the model
    PrevHashKinds,  \* which kinds of prev_hash the lines carry
    LineFaults,     \* the ways in which reading a line may fail
    MaxLines        \* bound: records read per stream

ASSUME InputAssumption ==
    /\ MaxLines \in Nat
    /\ Seqs \subseteq Nat
    /\ PrevHashKinds \subseteq {"genesis", "break", "link", "earlier", "other"}

VARIABLES
    prev,               \* Option<RecordView>: the last record verified
    prev_wall_ms,       \* Option<i64>: the last wall time that parsed
    findings,           \* classes of the findings reported so far
    hashes_by_seq,      \* seq -> record_hash, as collected for the checkpoints
    ts_min, ts_max,     \* Option: smallest and largest ts_wall text
    coverage_gap_count,
    segments_seen,      \* segments in reading order, without direct repeats
    segments_ended,     \* segments with a segment_end record
    reading,            \* the read loop has not ended yet
    lines               \* history: the records verify_next returned Ok for

verifierVars == <<prev, prev_wall_ms, findings, hashes_by_seq, ts_min, ts_max,
                  coverage_gap_count, segments_seen, segments_ended, reading, lines>>

IsUlid(id) == id \notin MalformedIds

-----------------------------------------------------------------------------
(* The findings of verify_next about record r, after record p. *)

StreamMismatch(r) == r.stream_id # StreamId

RecordHashMismatch(r) == ComputeHash(r) # r.record_hash

GenesisViolation(r) == r.seq = 0 /\ r.prev_hash # GenesisPrevHash(StreamId)

\* Mutant: takes a repeated sequence number for progress.
SeqNotMonotonicLax(p, r) == r.seq < p.seq

SeqNotMonotonic(p, r) == r.seq <= p.seq

\* Mutant: off by one.
SeqGapOffByOne(p, r) ==
    /\ r.seq > p.seq + 2
    /\ r.segment_id = p.segment_id

SeqGapInSegment(p, r) ==
    /\ r.seq > p.seq
    /\ r.segment_id = p.segment_id
    /\ r.seq # p.seq + 1

IsSegmentBreak(r) ==
    /\ IsUlid(r.stream_id)
    /\ IsUlid(r.segment_id)
    /\ r.prev_hash = SegmentBreakPrevHash(r.stream_id, r.segment_id)

SegmentBreak(p, r) ==
    /\ r.prev_hash # p.record_hash
    /\ r.segment_id # p.segment_id
    /\ IsSegmentBreak(r)

\* Mutant: links are compared within a segment only.
LinkBrokenInSegment(p, r) ==
    /\ r.prev_hash # p.record_hash
    /\ r.segment_id = p.segment_id

LinkBroken(p, r) ==
    /\ r.prev_hash # p.record_hash
    /\ ~SegmentBreak(p, r)

\* Mutant: forgets that the monotonic clock restarts with the segment.
MonoRegressionAnywhere(p, r) == r.ts_mono_ns < p.ts_mono_ns

MonoRegression(p, r) ==
    /\ r.segment_id = p.segment_id
    /\ r.ts_mono_ns < p.ts_mono_ns

WallRegression(p, wallMs, r) ==
    /\ ParseWall(r.ts_wall) # None
    /\ wallMs # None
    /\ Get(ParseWall(r.ts_wall)) - Get(wallMs) < -WALL_TOLERANCE_MS
    /\ r.record_type # "clock_anomaly"
    /\ p.record_type # "clock_anomaly"

BadWallTimestamp(r) == ParseWall(r.ts_wall) = None

FirstFindings(r) == IF GenesisViolation(r) THEN {"genesis_violation"} ELSE {}

NextFindings(p, wallMs, r) ==
    (IF SeqNotMonotonic(p, r) THEN {"seq_not_monotonic"} ELSE {})
      \cup (IF SeqGapInSegment(p, r) THEN {"seq_gap"} ELSE {})
      \cup (IF SegmentBreak(p, r) THEN {"segment_break"} ELSE {})
      \cup (IF LinkBroken(p, r) THEN {"chain_link_broken"} ELSE {})
      \cup (IF MonoRegression(p, r) THEN {"monotonic_regression"} ELSE {})
      \cup (IF WallRegression(p, wallMs, r) THEN {"wall_clock_regression"} ELSE {})
      \cup (IF BadWallTimestamp(r) THEN {"bad_wall_timestamp"} ELSE {})

RecordFindings(r) ==
    (IF StreamMismatch(r) THEN {"stream_mismatch"} ELSE {})
      \cup (IF RecordHashMismatch(r) THEN {"record_hash_mismatch"} ELSE {})
      \cup (IF prev = None THEN FirstFindings(r)
                           ELSE NextFindings(Get(prev), prev_wall_ms, r))

-----------------------------------------------------------------------------
VerifierInit ==
    /\ prev = None
    /\ prev_wall_ms = None
    /\ findings = IF IsUlid(StreamId) THEN {} ELSE {"stream_id_invalid"}
    /\ hashes_by_seq = <<>>
    /\ ts_min = None
    /\ ts_max = None
    /\ coverage_gap_count = 0
    /\ segments_seen = <<>>
    /\ segments_ended = {}
    /\ reading = IsUlid(StreamId)
    /\ lines = <<>>

\* Mutant: a record with findings does not become the predecessor.
VerifyNextKeepsGood(r) ==
    /\ findings' = findings \cup RecordFindings(r)
    /\ prev' = IF RecordFindings(r) = {} THEN Some(r) ELSE prev
    /\ prev_wall_ms' = IF ParseWall(r.ts_wall) = None THEN prev_wall_ms
                                                      ELSE ParseWall(r.ts_wall)
    /\ lines' = Append(lines, r)

\* Mutant: a time that does not parse takes the place of the last one that did.
VerifyNextForgetsWall(r) ==
    /\ findings' = findings \cup RecordFindings(r)
    /\ prev' = Some(r)
    /\ prev_wall_ms' = ParseWall(r.ts_wall)
    /\ lines' = Append(lines, r)

\* verify_next(r) returning Ok.
VerifyNext(r) ==
    /\ findings' = findings \cup RecordFindings(r)
    /\ prev' = Some(r)
    /\ prev_wall_ms' = IF ParseWall(r.ts_wall) = None THEN prev_wall_ms
                                                      ELSE ParseWall(r.ts_wall)
    /\ lines' = Append(lines, r)

\* Statistics and hash collection of verify_stream_chain.
CollectStats(r) ==
    /\ hashes_by_seq' = [s \in DOMAIN hashes_by_seq \cup {r.seq} |->
                            IF s = r.seq THEN r.record_hash ELSE hashes_by_seq[s]]
    /\ ts_min' = IF ts_min = None \/ r.ts_wall.text < Get(ts_min).text
                 THEN Some(r.ts_wall) ELSE ts_min
    /\ ts_max' = IF ts_max = None \/ r.ts_wall.text > Get(ts_max).text
                 THEN Some(r.ts_wall) ELSE ts_max
    /\ coverage_gap_count' = coverage_gap_count
                              + IF r.record_type = "coverage_gap" THEN 1 ELSE 0
    /\ segments_seen' = IF /\ segments_seen # <<>>
                           /\ segments_seen[Len(segments_seen)] = r.segment_id
                        THEN segments_seen
                        ELSE Append(segments_seen, r.segment_id)
    /\ segments_ended' = segments_ended
          \cup IF r.record_type = "lifecycle" /\ r.content = "segment_end"
               THEN {r.segment_id} ELSE {}

\* A line that is not JSON (record_parse_error), or one that lacks a chain field
\* or holds a number the canonicalizer refuses (record_invalid: verify_next
\* returns Err before it changes any state).
ReadBadLine ==
    /\ reading
    /\ \E class \in LineFaults \cap {"record_parse_error", "record_invalid"} :
          findings' = findings \cup {class}
    /\ UNCHANGED <<prev, prev_wall_ms, hashes_by_seq, ts_min, ts_max, coverage_gap_count,
                   segments_seen, segments_ended, reading, lines>>

\* One line that is a record.
ReadRecord(r) ==
    /\ reading
    /\ Hashable(r)
    /\ Len(lines) < MaxLines
    /\ VerifyNext(r)
    /\ CollectStats(r)
    /\ UNCHANGED reading

\* The reader fails on a shard: what was read so far stands.
StreamReadError ==
    /\ reading
    /\ "stream_read_error" \in LineFaults
    /\ findings' = findings \cup {"stream_read_error"}
    /\ reading' = FALSE
    /\ UNCHANGED <<prev, prev_wall_ms, hashes_by_seq, ts_min, ts_max, coverage_gap_count,
                   segments_seen, segments_ended, lines>>

EndOfStream ==
    /\ reading
    /\ reading' = FALSE
    /\ UNCHANGED <<prev, prev_wall_ms, findings, hashes_by_seq, ts_min, ts_max,
                   coverage_gap_count, segments_seen, segments_ended, lines>>

\* Mutant: looks at the last segment only.
LastSegmentWithoutEnd ==
    {i \in DOMAIN segments_seen : /\ i = Len(segments_seen)
                                  /\ segments_seen[i] \notin segments_ended}

\* segments_without_end, as computed after the read loop.
SegmentsWithoutEnd ==
    {i \in DOMAIN segments_seen : segments_seen[i] \notin segments_ended}

-----------------------------------------------------------------------------
(* The lines an exported file may hold. *)

PrevHashes(stream, segment) ==
    UNION {CASE k = "genesis" -> {GenesisPrevHash(StreamId)}
             [] k = "break"   -> {SegmentBreakPrevHash(stream, segment)}
             [] k = "link"    -> {IF prev = None THEN GenesisPrevHash(StreamId)
                                                 ELSE Get(prev).record_hash}
             [] k = "earlier" -> {lines[i].record_hash : i \in DOMAIN lines}
             [] k = "other"   -> OtherHashes : k \in PrevHashKinds}

ReadAnyRecord ==
    \E stream \in Streams, segment \in Segments, seq \in Seqs, wall \in Walls,
       mono \in Monos, type \in RecordTypes, content \in Contents :
       \E prevHash \in PrevHashes(stream, segment) :
          LET draft == Record(stream, segment, seq, wall, mono, type, content,
                              prevHash, None)
          IN  \E hash \in {ComputeHash(draft)} \cup OtherHashes :
                 ReadRecord([draft EXCEPT !.record_hash = hash])

VerifierNext ==
    \/ ReadAnyRecord
    \/ ReadBadLine
    \/ StreamReadError
    \/ EndOfStream

VerifierSpec == VerifierInit /\ [][VerifierNext]_verifierVars
-----------------------------------------------------------------------------
(* What the findings mean for the stream. *)

Severity(class) == IF class = "segment_break" THEN "Warning" ELSE "Error"

\* No finding of Error severity: the chain part of the verdict is not "fail".
Clean == \A class \in findings : Severity(class) # "Error"

\* All lines from i to j belong to one segment.
OneSegment(i, j) == \A k \in i..j : lines[k].segment_id = lines[i].segment_id

Classes == {"stream_id_invalid", "stream_mismatch", "record_hash_mismatch",
            "genesis_violation", "seq_not_monotonic", "seq_gap", "segment_break",
            "chain_link_broken", "monotonic_regression", "wall_clock_regression",
            "bad_wall_timestamp", "record_invalid", "record_parse_error",
            "stream_read_error"}

\* Type invariant: prev is the last record verified, and the statistics
\* range over what was read.
VerifierTypeOK ==
    /\ prev = IF lines = <<>> THEN None ELSE Some(lines[Len(lines)])
    /\ Len(prev_wall_ms) <= 1
    /\ findings \subseteq Classes
    /\ DOMAIN hashes_by_seq \subseteq Seqs
    /\ coverage_gap_count \in 0..Len(lines)
    /\ segments_ended \subseteq Segments
    /\ reading \in BOOLEAN
    /\ Len(lines) <= MaxLines

\* A stream without sequence findings is strictly increasing between any two
\* of its records, near or far, and has no hole inside an unbroken stretch of
\* one segment (verify_next only ever compares neighbours).
SeqRulesHold ==
    /\ "seq_not_monotonic" \notin findings =>
          \A i, j \in DOMAIN lines : i < j => lines[i].seq < lines[j].seq
    /\ {"seq_not_monotonic", "seq_gap"} \cap findings = {} =>
          \A i, j \in DOMAIN lines :
             i <= j /\ OneSegment(i, j) => lines[j].seq = lines[i].seq + (j - i)

\* Without hash and link findings every record carries the digest of the whole
\* record before it, or opens a new segment with the break sentinel and the
\* break is reported: the stored hashes alone cannot hide an edit.
LinksBindContent ==
    {"record_hash_mismatch", "chain_link_broken"} \cap findings = {} =>
       \A i \in 2..Len(lines) :
          \/ lines[i].prev_hash = ComputeHash(lines[i - 1])
          \/ /\ lines[i].segment_id # lines[i - 1].segment_id
             /\ "segment_break" \in findings

\* The seq -> hash index handed to checkpoint verification holds every record
\* read exactly once, unless a sequence finding says that some were not in
\* order (a repeated seq overwrites the earlier record's hash).
HashIndexFaithful ==
    "seq_not_monotonic" \notin findings =>
       /\ DOMAIN hashes_by_seq = {lines[i].seq : i \in DOMAIN lines}
       /\ \A i \in DOMAIN lines : hashes_by_seq[lines[i].seq] = lines[i].record_hash

\* None of these lines has a wall time that can be read.
Unread(i, j) == \A k \in i..j : ParseWall(lines[k].ts_wall) = None

\* Without regression findings the monotonic clock never falls in an unbroken
\* stretch of a segment, and over a stretch without a clock_anomaly record the
\* wall clock falls by at most the tolerance per line.  Lines whose time cannot be
\* read neither hide a fall nor widen the tolerance: across them it applies once.
ClockRulesHold ==
    /\ "monotonic_regression" \notin findings =>
          \A i, j \in DOMAIN lines :
             i <= j /\ OneSegment(i, j) => lines[i].ts_mono_ns <= lines[j].ts_mono_ns
    /\ "wall_clock_regression" \notin findings =>
          \A i, j \in DOMAIN lines :
             /\ i < j
             /\ ParseWall(lines[i].ts_wall) # None /\ ParseWall(lines[j].ts_wall) # None
             /\ \A k \in i..j : lines[k].record_type # "clock_anomaly"
             => LET from == Get(ParseWall(lines[i].ts_wall))
                    to   == Get(ParseWall(lines[j].ts_wall))
                IN  /\ to + (j - i) * WALL_TOLERANCE_MS >= from
                    /\ Unread(i + 1, j - 1) => to + WALL_TOLERANCE_MS >= from

\* A segment is reported as lacking its clean end exactly when it was read and
\* none of its records is a segment_end.
EndsReported ==
    {segments_seen[i] : i \in SegmentsWithoutEnd} =
       {lines[i].segment_id : i \in DOMAIN lines}
         \ {lines[i].segment_id : i \in {k \in DOMAIN lines :
               /\ lines[k].record_type = "lifecycle"
               /\ lines[k].content = "segment_end"}}
=============================================================================
