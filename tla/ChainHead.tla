----------------------------- MODULE ChainHead -----------------------------
(***************************************************************************)
(* The writer side of a stream: ChainHead (crates/evidence/src/chain.rs)   *)
(* and the recorder that drives it.  The recorder is not part of the       *)
(* repository; it is modelled from what ChainHead and the format require   *)
(* of it: appended records become durable in order, a crash loses those    *)
(* that are not durable yet, every boot is a new segment, and the head is  *)
(* resumed from the durable log or, when local state is lost, from the     *)
(* segment-break sentinel.                                                 *)
(***************************************************************************)
EXTENDS Digests

CONSTANTS
    MaxRecords,     \* bound: records appended to the stream
    StaleHeads      \* whether a boot may find an outdated persisted head

ASSUME RecorderAssumption == MaxRecords \in Nat /\ StaleHeads \in BOOLEAN

VARIABLES
    head,       \* Option<ChainHead>; None while the recorder is down
    segment,    \* Option: the segment of the current boot
    pending,    \* records appended but not durable yet, oldest first
    log         \* the durable records

recorderVars == <<head, segment, pending, log>>

NewHead(headHash, lastSeq) ==
    [stream_id |-> StreamId, head_hash |-> headHash, last_seq |-> lastSeq]

Genesis == NewHead(GenesisPrevHash(StreamId), None)

ResumeHead(headHash, lastSeq) == NewHead(headHash, Some(lastSeq))

\* Mutant: the number of the last record is used again.
NextSeqReused(h) == IF h.last_seq = None THEN 0 ELSE Get(h.last_seq)

NextSeq(h) == IF h.last_seq = None THEN 0 ELSE Get(h.last_seq) + 1

\* The record append() hashes: seq and prev_hash are set from the head.
Chained(h, draft) ==
    [draft EXCEPT !.seq = NextSeq(h), !.prev_hash = h.head_hash]

\* append() returns Ok.
Accepts(h, draft) ==
    /\ draft.stream_id = h.stream_id
    /\ Hashable(Chained(h, draft))

-----------------------------------------------------------------------------
RecorderInit ==
    /\ head = None
    /\ segment = None
    /\ pending = <<>>
    /\ log = <<>>

FreshSegments == Segments \ {log[i].segment_id : i \in DOMAIN log}

\* First boot of the stream.
StartStream ==
    /\ head = None
    /\ log = <<>>
    /\ \E s \in FreshSegments : segment' = Some(s)
    /\ head' = Some(Genesis)
    /\ UNCHANGED <<pending, log>>

\* A later boot: the persisted head is that of the last durable record, or of
\* an earlier one when the recorder's state was rolled back.
Resume ==
    /\ head = None
    /\ \E s \in FreshSegments : segment' = Some(s)
    /\ \E k \in DOMAIN log :
          /\ StaleHeads \/ k = Len(log)
          /\ head' = Some(ResumeHead(log[k].record_hash, log[k].seq))
    /\ UNCHANGED <<pending, log>>

\* A boot after local state was lost: the chain restarts from the sentinel of
\* the new segment, above every sequence number already taken.
ResumeAfterLoss ==
    /\ head = None
    /\ log # <<>>
    /\ \E s \in FreshSegments :
          /\ segment' = Some(s)
          /\ head' = Some(ResumeHead(SegmentBreakPrevHash(StreamId, s), log[Len(log)].seq))
    /\ UNCHANGED <<pending, log>>

\* The last record of the current chain, durable or not.
Latest == IF pending # <<>> THEN Some(pending[Len(pending)])
          ELSE IF log # <<>> THEN Some(log[Len(log)])
          ELSE None

\* The recorder's clock discipline: readable wall times, a clock_anomaly record
\* where the wall clock fell by more than the tolerance, a monotonic clock that
\* restarts with the segment.
KeepsTime(draft) ==
    /\ ParseWall(draft.ts_wall) # None
    /\ Latest # None =>
          /\ \/ draft.record_type = "clock_anomaly"
             \/ Get(ParseWall(draft.ts_wall)) + WALL_TOLERANCE_MS
                  >= Get(ParseWall(Get(Latest).ts_wall))
          /\ \/ draft.segment_id # Get(Latest).segment_id
             \/ draft.ts_mono_ns >= Get(Latest).ts_mono_ns

Drafts ==
    {Record(stream, Get(segment), 0, wall, mono, type, content, None, None) :
        stream \in Streams, wall \in Walls, mono \in Monos,
        type \in RecordTypes, content \in Contents}

AppendRecord ==
    /\ head # None
    /\ Len(log) + Len(pending) < MaxRecords
    /\ \E draft \in Drafts :
          /\ KeepsTime(draft)
          /\ Accepts(Get(head), draft)
          /\ LET r == Finalized(Chained(Get(head), draft))
             IN  /\ pending' = Append(pending, r)
                 /\ head' = Some(ResumeHead(r.record_hash, r.seq))
    /\ UNCHANGED <<segment, log>>

\* append() returns Err, for a record of another stream or one that cannot be
\* canonicalized; the head is as before.
AppendRefused ==
    /\ head # None
    /\ {draft \in Drafts : ~Accepts(Get(head), draft)} # {}
    /\ UNCHANGED recorderVars

PersistRecord ==
    /\ pending # <<>>
    /\ log' = Append(log, Head(pending))
    /\ pending' = Tail(pending)
    /\ UNCHANGED <<head, segment>>

Crash ==
    /\ head # None
    /\ head' = None
    /\ segment' = None
    /\ pending' = <<>>
    /\ UNCHANGED log

RecorderNext ==
    \/ StartStream
    \/ Resume
    \/ ResumeAfterLoss
    \/ AppendRecord
    \/ AppendRefused
    \/ PersistRecord
    \/ Crash
=============================================================================
