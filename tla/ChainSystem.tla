---------------------------- MODULE ChainSystem ----------------------------
(***************************************************************************)
(* A recorder and a verifier of the same stream.  In HonestSpec the bundle *)
(* holds a contiguous run of the durable log, from any record on, read     *)
(* while the recorder keeps writing, crashing and booting.  In AnySpec the *)
(* bundle holds any records at all, the log's digests among theirs.        *)
(***************************************************************************)
EXTENDS ChainHead, StreamVerifier

VARIABLE cursor     \* index in the log of the last record exported; 0: none

systemVars == <<recorderVars, verifierVars, cursor>>

SystemInit ==
    /\ RecorderInit
    /\ VerifierInit
    /\ cursor = 0

RecorderStep ==
    /\ RecorderNext
    /\ UNCHANGED <<verifierVars, cursor>>

\* The next record of an export of the log.
ReadExported ==
    /\ \E i \in DOMAIN log :
          /\ cursor = 0 \/ i = cursor + 1
          /\ ReadRecord(log[i])
          /\ cursor' = i
    /\ UNCHANGED recorderVars

LogHashes == {log[i].record_hash : i \in DOMAIN log}

\* A record of a bundle that nothing vouches for.
ReadUnvouched ==
    /\ \E stream \in Streams, s \in Segments, seq \in Seqs, wall \in Walls,
          mono \in Monos, type \in RecordTypes, content \in Contents :
          \E prevHash \in PrevHashes(stream, s) \cup LogHashes :
             LET draft == Record(stream, s, seq, wall, mono, type, content, prevHash, None)
             IN  \E hash \in {ComputeHash(draft)} \cup LogHashes \cup OtherHashes :
                    ReadRecord([draft EXCEPT !.record_hash = hash])
    /\ UNCHANGED <<recorderVars, cursor>>

HonestNext == RecorderStep \/ ReadExported
HonestSpec == SystemInit /\ [][HonestNext]_systemVars

AnyNext == RecorderStep \/ ReadUnvouched
AnySpec == SystemInit /\ [][AnyNext]_systemVars

-----------------------------------------------------------------------------
\* Record i was appended to an older record than the one before it in the log.
AfterRollback(i) ==
    /\ lines[i].prev_hash # lines[i - 1].record_hash
    /\ lines[i].prev_hash \in LogHashes

\* Whatever crashes, lost records, boots and refused appends the recorder went
\* through, an export of its log raises no Error finding, and the one Warning
\* appears exactly when the export spans a boot after local state was lost.
\* Only a boot from a rolled-back head inside the export is different.
NoFalseAlarm ==
    (\A i \in 2..Len(lines) : ~AfterRollback(i)) =>
       /\ Clean
       /\ "segment_break" \in findings <=>
             \E i \in 2..Len(lines) : IsSegmentBreak(lines[i])

\* A recorder that booted from a rolled-back head wrote a second history on top
\* of the first: an export that spans the point is reported with both the
\* broken link and the repeated sequence numbers.
RollbackReported ==
    \A i \in 2..Len(lines) :
       (\E k \in 1..(i - 2) : lines[i].prev_hash = lines[k].record_hash)
          => {"chain_link_broken", "seq_not_monotonic"} \subseteq findings

\* Line i is tied to the end of the file by prev_hash links alone.
TiedToEnd(i) ==
    \A k \in (i + 1)..Len(lines) : lines[k].prev_hash = lines[k - 1].record_hash

\* Tamper evidence: when a stream without Error findings ends in a digest that
\* the recorder produced, its records are the recorder's own, one by one, back
\* to the last segment break or to the start of the file.
TamperEvidence ==
    Clean /\ lines # <<>> =>
       \A j \in DOMAIN log :
          lines[Len(lines)].record_hash = log[j].record_hash =>
             \A d \in 0..(Len(lines) - 1) :
                TiedToEnd(Len(lines) - d) =>
                   d < j /\ lines[Len(lines) - d] = log[j - d]

Evidence == INSTANCE EvidenceLog

\* The recorder implements the append-only log: no interleaving of appends,
\* delayed writes, crashes and boots leaves a hole, a repeated sequence number or
\* a record linked to one that was lost in the durable log.
KeepsEvidence == Evidence!LogSpec

\* Exploration bounds for AnySpec: reading does not depend on the recorder, so
\* its steps come first, and TamperEvidence only speaks of clean streams, which
\* findings never become again.
RecorderFirst == lines = <<>> \/ UNCHANGED recorderVars
OnlyClean == Clean
=============================================================================
