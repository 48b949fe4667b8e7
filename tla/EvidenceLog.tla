---------------------------- MODULE EvidenceLog ----------------------------
(***************************************************************************)
(* What a stream promises to whoever holds a copy of it: an append-only    *)
(* log in which the place of a record is its sequence number and every     *)
(* record is linked to the one before it, unless it opens a segment after  *)
(* a loss and says so.  ChainHead (crates/evidence/src/chain.rs) and the   *)
(* recorder that drives it implement this, whatever crashes in between.    *)
(***************************************************************************)
EXTENDS Digests

VARIABLE log

LogInit == log = <<>>

SegmentsUpTo(k) == {log[i].segment_id : i \in 1..k}

\* The link a record of that segment has as number k + 1 of the log.
Linked(r, k) ==
    IF k = 0 THEN r.prev_hash = GenesisPrevHash(StreamId)
    ELSE \/ r.prev_hash = log[k].record_hash
         \/ /\ r.prev_hash = SegmentBreakPrevHash(StreamId, r.segment_id)
            /\ r.segment_id \notin SegmentsUpTo(k)

Follows(r) ==
    /\ r.stream_id = StreamId
    /\ r.seq = Len(log)
    /\ r.record_hash = ComputeHash(r)
    /\ Linked(r, Len(log))

Extend ==
    /\ Len(log') = Len(log) + 1
    /\ log' = Append(log, log'[Len(log) + 1])
    /\ Follows(log'[Len(log) + 1])

LogSpec == LogInit /\ [][Extend]_log
=============================================================================
