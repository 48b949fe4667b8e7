-------------------------- MODULE MCStreamVerifier --------------------------
(***************************************************************************)
(* Values for the constants of StreamVerifier.  All fields of a record     *)
(* varied at once are too many files, so a run reads files of three kinds: *)
(* each varies the fields that some rules look at and keeps the others.    *)
(***************************************************************************)
EXTENDS StreamVerifier

Wall(text, time) == [text |-> text, ms |-> Some(time)]

MCWalls == {[text |-> 9, ms |-> None], Wall(0, 0), Wall(2, 2000), Wall(3, 2001),
            Wall(4, 4002)}
BadHash == {<<"no-such-record">>}

VARIABLE kind   \* the kind of file that is read

\* Sequence numbers, hashes, links and sentinels.
StructureFiles ==
    [streams |-> {StreamId}, seqs |-> Seqs, walls |-> {Wall(0, 0)},
     monos |-> {0}, types |-> {"operation"}, contents |-> {"c1"}, hashes |-> BadHash,
     linked |-> FALSE, faulty |-> TRUE]

\* Both clocks, and clock_anomaly records.
ClockFiles ==
    [streams |-> {StreamId}, seqs |-> {0}, walls |-> MCWalls,
     monos |-> {0, 1}, types |-> {"operation", "clock_anomaly"}, contents |-> {"c1"},
     hashes |-> {}, linked |-> TRUE, faulty |-> FALSE]

\* Segment ends, coverage gaps, foreign records and reading errors.
SegmentFiles ==
    [streams |-> Streams, seqs |-> {0}, walls |-> {Wall(0, 0)},
     monos |-> {0}, types |-> {"lifecycle", "coverage_gap"}, contents |-> Contents,
     hashes |-> {}, linked |-> TRUE, faulty |-> TRUE]

PrevHashesOf(stream, segment) ==
    IF ~kind.linked THEN PrevHashes(stream, segment)
    ELSE {IF prev = None THEN GenesisPrevHash(StreamId) ELSE Get(prev).record_hash}

ReadRecordOfKind ==
    \E stream \in kind.streams, segment \in Segments, seq \in kind.seqs, wall \in kind.walls,
       mono \in kind.monos, type \in kind.types, content \in kind.contents :
       \E prevHash \in PrevHashesOf(stream, segment) :
          LET draft == Record(stream, segment, seq, wall, mono, type, content, prevHash, None)
          IN  \E hash \in {ComputeHash(draft)} \cup kind.hashes :
                 ReadRecord([draft EXCEPT !.record_hash = hash])

ReadFault == kind.faulty /\ (ReadBadLine \/ StreamReadError)

FileInit == VerifierInit /\ kind \in {StructureFiles, ClockFiles, SegmentFiles}

FileNext == (ReadRecordOfKind \/ ReadFault \/ EndOfStream) /\ UNCHANGED kind

FileSpec == FileInit /\ [][FileNext]_<<verifierVars, kind>>
=============================================================================
