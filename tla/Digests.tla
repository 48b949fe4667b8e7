------------------------------ MODULE Digests ------------------------------
(***************************************************************************)
(* Records and their digests (crates/evidence: record.rs, hash.rs, jcs.rs).*)
(* BLAKE3 over the canonical JSON bytes is modelled symbolically: a digest *)
(* is a tuple that starts with the tag of what was hashed and continues    *)
(* with the hashed data, so equal digests mean equal data.                 *)
(***************************************************************************)
EXTENDS Options

CONSTANTS
    MAX_SAFE_INTEGER,   \* largest number the canonicalizer encodes (2^53 - 1)
    StreamId,           \* the stream under consideration
    Streams,            \* stream ids a record may carry
    Segments,           \* segment ids: one per recorder boot
    Walls,              \* ts_wall values: [text |-> rank of the string, ms |-> parse]
    Monos,              \* ts_mono_ns values
    RecordTypes,        \* record_type values
    Contents            \* contents; "segment_end" is the operation of that name

ASSUME RecordAssumption ==
    /\ MAX_SAFE_INTEGER \in Nat
    /\ Monos \subseteq Nat
    /\ \A w \in Walls : w.text \in Nat /\ w.ms \in Seq(Int) /\ Len(w.ms) <= 1

WALL_TOLERANCE_MS == 2000

\* prev_hash of the very first record of a stream.
GenesisPrevHash(stream) == <<"SEALR-GENESIS", stream>>

\* prev_hash that opens a segment whose predecessor's head was lost.
SegmentBreakPrevHash(stream, segment) ==
    <<"SEALR-SEGMENT-BREAK", stream, segment>>

(***************************************************************************)
(* A record keeps the fields the chain is about; "content" stands for all  *)
(* the others (action, subject, verdict ...).  ts_wall keeps two things    *)
(* about the text: its rank in string order and the milliseconds it parses *)
(* to, None when it does not parse.                                        *)
(***************************************************************************)
Record(stream, segment, seq, wall, mono, type, content, prevHash, hash) ==
    [stream_id   |-> stream,   segment_id  |-> segment,
     seq         |-> seq,      ts_wall     |-> wall,
     ts_mono_ns  |-> mono,     record_type |-> type,
     content     |-> content,  prev_hash   |-> prevHash,
     record_hash |-> hash]

ParseWall(wall) == wall.ms

\* The canonicalizer refuses a record with a number above 2^53 - 1.
Hashable(r) ==
    /\ r.seq <= MAX_SAFE_INTEGER
    /\ r.ts_mono_ns <= MAX_SAFE_INTEGER

\* Mutant: the digest leaves prev_hash out as well.
ComputeHashUnlinked(r) ==
    <<"record", r.stream_id, r.segment_id, r.seq, r.ts_wall, r.ts_mono_ns,
      r.record_type, r.content>>

\* BLAKE3(JCS(record without record_hash)).
ComputeHash(r) ==
    <<"record", r.stream_id, r.segment_id, r.seq, r.ts_wall, r.ts_mono_ns,
      r.record_type, r.content, r.prev_hash>>

\* record.finalize(): the record with its own hash stored in it.
Finalized(r) == [r EXCEPT !.record_hash = ComputeHash(r)]
=============================================================================
