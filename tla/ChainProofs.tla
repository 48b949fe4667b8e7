---------------------------- MODULE ChainProofs ----------------------------
(***************************************************************************)
(* The record chain, for every value of the constants.                     *)
(*                                                                         *)
(* The first part is what StreamVerifier establishes about any exported    *)
(* file: VerifierSpec => []Inv for the type invariant and for the          *)
(* sequence, link and index invariants.  verify_next compares a record     *)
(* with its predecessor only; FileInv ties that predecessor to the last    *)
(* line of the file, which lets each rule be carried from neighbours to    *)
(* any two lines by induction over the steps.                              *)
(*                                                                         *)
(* The second part is tamper evidence, and what an honest export shows:    *)
(* AnySpec => []TamperEvidence when no boot starts from an outdated head.  *)
(* TamperEvidence is not inductive: it speaks of the end of the file and   *)
(* of the durable log, while the next record may already be in the file    *)
(* before the recorder makes it durable.  ProvenanceInv strengthens it to  *)
(* every position of the file and to the whole chain, records still        *)
(* pending included; ChainInv and HeadInv say how the recorder links that  *)
(* chain, LinesInv what the verifier's hash check has established.         *)
(***************************************************************************)
EXTENDS ChainSystem, SequenceFacts

\* The predecessor verify_next compares with is the last line of the file.
LastLine ==
    /\ IsSeq(lines)
    /\ prev = IF lines = <<>> THEN None ELSE Some(lines[Len(lines)])

FileInv ==
    /\ IsSeq(lines)
    /\ VerifierTypeOK
    /\ \A i \in 1..Len(lines) : lines[i].seq \in Seqs /\ lines[i].segment_id \in Segments
    /\ "record_hash_mismatch" \notin findings =>
          \A i \in 1..Len(lines) : lines[i].record_hash = ComputeHash(lines[i])

-----------------------------------------------------------------------------
(* Steps. *)

\* A step that reads no record leaves the file alone.
FileUnchanged ==
    /\ UNCHANGED <<prev, lines, hashes_by_seq, coverage_gap_count, segments_seen,
                   segments_ended>>
    /\ findings \subseteq findings'

\* A step of verify_stream_chain reads one record, or leaves the file read so
\* far and the verifier's predecessor alone.
LEMMA StepKinds ==
    ASSUME [VerifierNext]_verifierVars
    PROVE  \/ \E r : /\ ReadRecord(r)
                     /\ r.seq \in Seqs
                     /\ r.segment_id \in Segments
                     /\ r.ts_wall \in Walls
                     /\ r.ts_mono_ns \in Monos
           \/ /\ FileUnchanged
              /\ findings' \subseteq findings \cup Classes
              /\ reading' \in {reading, FALSE}
              /\ UNCHANGED prev_wall_ms
  <1>1. CASE ReadAnyRecord
    <2>1. PICK stream \in Streams, seg \in Segments, seq \in Seqs, wall \in Walls,
               mono \in Monos, type \in RecordTypes, content \in Contents :
             \E prevHash \in PrevHashes(stream, seg) :
                LET draft == Record(stream, seg, seq, wall, mono, type, content,
                                    prevHash, None)
                IN  \E hash \in {ComputeHash(draft)} \cup OtherHashes :
                       ReadRecord([draft EXCEPT !.record_hash = hash])
      BY <1>1 DEF ReadAnyRecord
    <2>2. PICK prevHash \in PrevHashes(stream, seg) :
             LET draft == Record(stream, seg, seq, wall, mono, type, content,
                                 prevHash, None)
             IN  \E hash \in {ComputeHash(draft)} \cup OtherHashes :
                    ReadRecord([draft EXCEPT !.record_hash = hash])
      BY <2>1
    <2> DEFINE draft == Record(stream, seg, seq, wall, mono, type, content,
                               prevHash, None)
    <2>3. PICK hash : ReadRecord([draft EXCEPT !.record_hash = hash])
      BY <2>2, Zenon
    <2>4. /\ [draft EXCEPT !.record_hash = hash].seq = seq
          /\ [draft EXCEPT !.record_hash = hash].segment_id = seg
          /\ [draft EXCEPT !.record_hash = hash].ts_wall = wall
          /\ [draft EXCEPT !.record_hash = hash].ts_mono_ns = mono
      BY DEF Record
    <2> HIDE DEF draft
    <2> QED
      BY <2>3, <2>4, Zenon
  <1>2. CASE ReadBadLine
    BY <1>2 DEF ReadBadLine, FileUnchanged, Classes
  <1>3. CASE StreamReadError
    BY <1>3, Zenon DEF StreamReadError, FileUnchanged, Classes
  <1>4. CASE EndOfStream
    BY <1>4, Zenon DEF EndOfStream, FileUnchanged
  <1>5. CASE UNCHANGED verifierVars
    BY <1>5 DEF verifierVars, FileUnchanged
  <1> QED
    BY <1>1, <1>2, <1>3, <1>4, <1>5, Zenon DEF VerifierNext

\* A record read becomes the last line; the lines before it stay.
LEMMA ReadFacts ==
    ASSUME IsSeq(lines), NEW r, ReadRecord(r)
    PROVE  /\ IsSeq(lines')
           /\ Len(lines) \in Nat
           /\ Len(lines') = Len(lines) + 1
           /\ \A i \in 1..Len(lines) : lines'[i] = lines[i]
           /\ lines'[Len(lines) + 1] = r
           /\ lines' # <<>>
           /\ DOMAIN lines' = 1..(Len(lines) + 1)
           /\ DOMAIN lines = 1..Len(lines)
           /\ prev' = Some(r)
           /\ findings' = findings \cup RecordFindings(r)
  <1>1. /\ lines' = Append(lines, r)
        /\ prev' = Some(r)
        /\ findings' = findings \cup RecordFindings(r)
    BY DEF ReadRecord, VerifyNext
  <1>2. /\ IsSeq(lines')
        /\ Len(lines) \in Nat
        /\ Len(lines') = Len(lines) + 1
        /\ \A i \in 1..Len(lines) : lines'[i] = lines[i]
        /\ lines'[Len(lines) + 1] = r
    BY <1>1, AppendFacts
  <1>3. lines' # <<>> /\ DOMAIN lines' = 1..(Len(lines) + 1) /\ DOMAIN lines = 1..Len(lines)
    BY <1>2 DEF IsSeq
  <1> QED
    BY <1>1, <1>2, <1>3

\* The two cases of the predecessor.
LEMMA PrevFacts ==
    ASSUME LastLine
    PROVE  /\ Len(lines) \in Nat
           /\ prev = None <=> Len(lines) = 0
           /\ Len(lines) > 0 => Get(prev) = lines[Len(lines)]
  BY AppendFacts DEF LastLine, IsSeq, None, Some, Get

\* FileInv types the last line.
LEMMA FileLastLine ==
    ASSUME FileInv
    PROVE  LastLine
  BY DEF FileInv, LastLine, VerifierTypeOK

\* verify_next reports only known classes.
LEMMA RecordFindingsTyped ==
    ASSUME NEW r
    PROVE  RecordFindings(r) \subseteq Classes
  <1>1. FirstFindings(r) \subseteq Classes
    BY DEF FirstFindings, Classes
  <1>2. NextFindings(Get(prev), prev_wall_ms, r) \subseteq Classes
    BY DEF NextFindings, Classes
  <1> QED
    BY <1>1, <1>2 DEF RecordFindings, Classes

\* Reading a record keeps the invariant about the file read so far.
LEMMA ReadKeepsFile ==
    ASSUME FileInv, NEW r, ReadRecord(r), r.seq \in Seqs, r.segment_id \in Segments,
           r.ts_wall \in Walls
    PROVE  FileInv'
  <1>1. IsSeq(lines)
    BY DEF FileInv
  <1>2. /\ IsSeq(lines')
        /\ Len(lines) \in Nat
        /\ Len(lines') = Len(lines) + 1
        /\ \A i \in 1..Len(lines) : lines'[i] = lines[i]
        /\ lines'[Len(lines) + 1] = r
        /\ lines' # <<>>
        /\ prev' = Some(r)
        /\ findings' = findings \cup RecordFindings(r)
    BY <1>1, ReadFacts
  <1>3. VerifierTypeOK'
    <2>1. prev' = IF lines' = <<>> THEN None ELSE Some(lines'[Len(lines')])
      BY <1>2
    <2>2. Len(prev_wall_ms') <= 1
      BY RecordAssumption DEF ReadRecord, VerifyNext, ParseWall, FileInv, VerifierTypeOK
    <2>3. findings' \subseteq Classes
      BY <1>2, RecordFindingsTyped DEF FileInv, VerifierTypeOK
    <2>4. DOMAIN hashes_by_seq' \subseteq Seqs
      BY DEF ReadRecord, CollectStats, FileInv, VerifierTypeOK
    <2>5. coverage_gap_count' \in 0..Len(lines')
      BY <1>2 DEF ReadRecord, CollectStats, FileInv, VerifierTypeOK
    <2>6. segments_ended' \subseteq Segments
      BY DEF ReadRecord, CollectStats, FileInv, VerifierTypeOK
    <2>7. reading' \in BOOLEAN /\ Len(lines') <= MaxLines
      BY <1>2, InputAssumption DEF ReadRecord, FileInv, VerifierTypeOK
    <2> QED
      BY <2>1, <2>2, <2>3, <2>4, <2>5, <2>6, <2>7 DEF VerifierTypeOK
  <1>4. \A i \in 1..Len(lines') : lines'[i].seq \in Seqs /\ lines'[i].segment_id \in Segments
    BY <1>2 DEF FileInv
  <1>5. ASSUME "record_hash_mismatch" \notin findings', NEW i \in 1..Len(lines')
        PROVE  lines'[i].record_hash = ComputeHash(lines'[i])
    <2>1. "record_hash_mismatch" \notin findings /\ ~RecordHashMismatch(r)
      BY <1>2, <1>5, Zenon DEF RecordFindings
    <2>2. r.record_hash = ComputeHash(r)
      BY <2>1 DEF RecordHashMismatch
    <2> QED
      BY <1>2, <2>1, <2>2 DEF FileInv
  <1> QED
    BY <1>2, <1>3, <1>4, <1>5 DEF FileInv

\* So does every other step.
LEMMA StepKeepsFile ==
    ASSUME FileInv, [VerifierNext]_verifierVars
    PROVE  FileInv'
  <1>1. CASE \E r : /\ ReadRecord(r)
                    /\ r.seq \in Seqs
                    /\ r.segment_id \in Segments
                    /\ r.ts_wall \in Walls
    BY <1>1, ReadKeepsFile
  <1>2. CASE /\ FileUnchanged
             /\ findings' \subseteq findings \cup Classes
             /\ reading' \in {reading, FALSE}
             /\ UNCHANGED prev_wall_ms
    BY <1>2, Zenon DEF FileUnchanged, FileInv, VerifierTypeOK
  <1> QED
    BY <1>1, <1>2, StepKinds, Zenon

\* It holds before the first line.
LEMMA InitFile ==
    ASSUME VerifierInit
    PROVE  FileInv
  <1>1. lines = <<>> /\ IsSeq(lines) /\ Len(lines) = 0
    BY DEF VerifierInit, IsSeq
  <1>2. VerifierTypeOK
    BY <1>1, InputAssumption DEF VerifierInit, VerifierTypeOK, None, IsUlid, Classes
  <1> QED
    BY <1>1, <1>2 DEF FileInv

\* Type correctness of the verifier's state, whatever the file holds.
THEOREM VerifierTyped == VerifierSpec => []VerifierTypeOK
  <1>1. VerifierInit => FileInv
    BY InitFile
  <1>2. FileInv /\ [VerifierNext]_verifierVars => FileInv'
    BY StepKeepsFile
  <1>3. FileInv => VerifierTypeOK
    BY DEF FileInv
  <1> QED
    BY <1>1, <1>2, <1>3, PTL DEF VerifierSpec

-----------------------------------------------------------------------------
(* Sequence numbers. *)

\* Reading a record keeps the sequence rules: the new line is compared with
\* the last one, and the rules between other lines are already known.
LEMMA ReadKeepsSeqRules ==
    ASSUME LastLine, \A i \in 1..Len(lines) : lines[i].seq \in Nat, SeqRulesHold,
           NEW r, ReadRecord(r), r.seq \in Nat
    PROVE  SeqRulesHold'
  <1> DEFINE n == Len(lines)
  <1>1. /\ n \in Nat
        /\ Len(lines') = n + 1
        /\ \A i \in 1..n : lines'[i] = lines[i]
        /\ lines'[n + 1] = r
        /\ DOMAIN lines' = 1..(n + 1)
        /\ DOMAIN lines = 1..n
        /\ findings' = findings \cup RecordFindings(r)
    BY ReadFacts DEF LastLine
  <1>2. /\ prev = None <=> n = 0
        /\ n > 0 => Get(prev) = lines[n]
    BY PrevFacts
  <1>3. r.seq \in Nat /\ \A i \in 1..n : lines[i].seq \in Nat
    OBVIOUS
  <1> HIDE DEF n
  <1>4. ASSUME "seq_not_monotonic" \notin findings'
        PROVE  "seq_not_monotonic" \notin findings /\ (n > 0 => lines[n].seq < r.seq)
    <2>1. prev # None => ~SeqNotMonotonic(Get(prev), r)
      BY <1>1, <1>4, Zenon DEF RecordFindings, NextFindings
    <2>2. n > 0 => ~(r.seq <= lines[n].seq)
      BY <2>1, <1>1, <1>2 DEF SeqNotMonotonic
    <2> QED
      BY <2>2, <1>1, <1>3, <1>4
  <1>5. ASSUME "seq_not_monotonic" \notin findings'
        PROVE  \A i, j \in DOMAIN lines' : i < j => lines'[i].seq < lines'[j].seq
    <2> SUFFICES ASSUME NEW i \in 1..(n + 1), NEW j \in 1..(n + 1), i < j
                 PROVE  lines'[i].seq < lines'[j].seq
      BY <1>1
    <2>1. \A a, b \in 1..n : a < b => lines[a].seq < lines[b].seq
      BY <1>1, <1>4, <1>5, SMTT(30) DEF SeqRulesHold
    <2>2. CASE j <= n
      BY <2>1, <2>2, <1>1
    <2>3. CASE j = n + 1 /\ i = n
      BY <2>3, <1>1, <1>4, <1>5
    <2>4. CASE j = n + 1 /\ i < n
      <3>1. i \in 1..n /\ n \in 1..n /\ n > 0
        BY <2>4, <1>1
      <3>2. lines[i].seq < lines[n].seq /\ lines[n].seq < r.seq
        BY <3>1, <2>1, <2>4, <1>4, <1>5
      <3> QED
        BY <3>1, <3>2, <2>4, <1>1, <1>3
    <2> QED
      BY <2>2, <2>3, <2>4, <1>1
  <1>6. ASSUME {"seq_not_monotonic", "seq_gap"} \cap findings' = {},
               NEW i \in 1..(n + 1), NEW j \in 1..(n + 1), i <= j,
               \A k \in i..j : lines'[k].segment_id = lines'[i].segment_id
        PROVE  lines'[j].seq = lines'[i].seq + (j - i)
    <2>1. {"seq_not_monotonic", "seq_gap"} \cap findings = {}
      BY <1>1, <1>6
    <2>2. ASSUME NEW b \in 1..n, i <= b, b <= j
          PROVE  lines[b].seq = lines[i].seq + (b - i)
      <3>1. \A k \in i..b : k \in 1..n /\ k \in i..j
        BY <2>2, <1>1
      <3>2. i \in 1..n /\ lines'[i] = lines[i]
        BY <2>2, <1>1
      <3>3. \A k \in i..b : lines[k].segment_id = lines[i].segment_id
        BY <3>1, <3>2, <1>1, <1>6, SMTT(30)
      <3> QED
        BY <2>1, <2>2, <3>2, <3>3, <1>1, Zenon DEF SeqRulesHold, OneSegment
    <2>3. CASE j <= n
      <3>1. i \in 1..n /\ j \in 1..n /\ lines'[i] = lines[i] /\ lines'[j] = lines[j]
        BY <2>3, <1>1, <1>6
      <3> QED
        BY <3>1, <2>2, <1>6
    <2>4. CASE j = n + 1 /\ i = j
      BY <2>4, <1>1, <1>3
    <2>5. CASE j = n + 1 /\ i < j
      <3>1. n > 0 /\ n \in 1..n /\ i \in 1..n /\ n \in i..j /\ j \in i..j
        BY <2>5, <1>1
      <3>2. r.segment_id = lines[n].segment_id
        BY <3>1, <2>5, <1>1, <1>6
      <3>3. ~SeqNotMonotonic(Get(prev), r) /\ ~SeqGapInSegment(Get(prev), r)
        <4>1. "seq_not_monotonic" \notin findings' /\ "seq_gap" \notin findings'
          BY <1>6
        <4>2. prev # None
          BY <3>1, <1>2, <1>1
        <4> QED
          BY <4>1, <4>2, <1>1, Zenon DEF RecordFindings, NextFindings
      <3>4. r.seq = lines[n].seq + 1
        BY <3>1, <3>2, <3>3, <1>2, <1>3 DEF SeqNotMonotonic, SeqGapInSegment
      <3>5. lines[n].seq = lines[i].seq + (n - i)
        BY <3>1, <2>2, <2>5, <1>1
      <3> QED
        BY <3>1, <3>4, <3>5, <2>5, <1>1, <1>3
    <2> QED
      BY <2>3, <2>4, <2>5, <1>1
  <1>7. {"seq_not_monotonic", "seq_gap"} \cap findings' = {} =>
           \A i, j \in DOMAIN lines' :
              i <= j /\ (\A k \in i..j : lines'[k].segment_id = lines'[i].segment_id)
                 => lines'[j].seq = lines'[i].seq + (j - i)
    BY <1>1, <1>6, Zenon
  <1> QED
    BY <1>5, <1>7 DEF SeqRulesHold, OneSegment

\* Sequence rules: although verify_next compares neighbours only, a file without
\* sequence findings increases strictly between any two lines and has no hole
\* inside an unbroken stretch of one segment.
THEOREM SeqRulesProved == VerifierSpec => []SeqRulesHold
  <1>1. VerifierInit => FileInv /\ SeqRulesHold
    BY InitFile DEF VerifierInit, SeqRulesHold
  <1>2. FileInv /\ SeqRulesHold /\ [VerifierNext]_verifierVars => FileInv' /\ SeqRulesHold'
    <2> SUFFICES ASSUME FileInv, SeqRulesHold, [VerifierNext]_verifierVars
                 PROVE  SeqRulesHold'
      BY StepKeepsFile
    <2>1. CASE \E r : ReadRecord(r) /\ r.seq \in Seqs
      BY <2>1, ReadKeepsSeqRules, FileLastLine, InputAssumption, Zenon DEF FileInv
    <2>2. CASE FileUnchanged
      BY <2>2 DEF FileUnchanged, SeqRulesHold, OneSegment
    <2> QED
      BY <2>1, <2>2, StepKinds, Zenon
  <1> QED
    BY <1>1, <1>2, PTL DEF VerifierSpec

-----------------------------------------------------------------------------
(* Links. *)

\* Reading a record keeps the link rule.
LEMMA ReadKeepsLinks ==
    ASSUME FileInv, LinksBindContent, NEW r, ReadRecord(r)
    PROVE  LinksBindContent'
  <1> DEFINE n == Len(lines)
  <1>1. /\ n \in Nat
        /\ Len(lines') = n + 1
        /\ \A i \in 1..n : lines'[i] = lines[i]
        /\ lines'[n + 1] = r
        /\ findings' = findings \cup RecordFindings(r)
    BY ReadFacts DEF FileInv
  <1>2. /\ prev = None <=> n = 0
        /\ n > 0 => Get(prev) = lines[n]
    BY PrevFacts, FileLastLine
  <1> SUFFICES ASSUME {"record_hash_mismatch", "chain_link_broken"} \cap findings' = {},
                      NEW i \in 2..Len(lines')
               PROVE  \/ lines'[i].prev_hash = ComputeHash(lines'[i - 1])
                      \/ /\ lines'[i].segment_id # lines'[i - 1].segment_id
                         /\ "segment_break" \in findings'
    BY DEF LinksBindContent
  <1>3. /\ {"record_hash_mismatch", "chain_link_broken"} \cap findings = {}
        /\ "record_hash_mismatch" \notin findings
        /\ "chain_link_broken" \notin findings'
    BY <1>1
  <1>4. CASE i <= n
    <2>1. i \in 2..n /\ lines'[i] = lines[i] /\ lines'[i - 1] = lines[i - 1]
      BY <1>1, <1>4
    <2> QED
      BY <2>1, <1>1, <1>3 DEF LinksBindContent
  <1>5. CASE i = n + 1
    <2>1. n > 0 /\ n \in 1..n /\ i - 1 = n /\ lines'[i - 1] = lines[n] /\ lines'[i] = r
      BY <1>1, <1>5
    <2>2. prev # None /\ Get(prev) = lines[n]
      BY <1>2, <2>1
    <2>3. lines[n].record_hash = ComputeHash(lines[n])
      BY <1>3, <2>1 DEF FileInv
    <2>4. ~LinkBroken(Get(prev), r)
      BY <1>1, <1>3, <2>2, Zenon DEF RecordFindings, NextFindings
    <2>5. CASE SegmentBreak(Get(prev), r)
      <3>1. "segment_break" \in findings'
        BY <1>1, <2>2, <2>5, Zenon DEF RecordFindings, NextFindings
      <3>2. r.segment_id # lines[n].segment_id
        BY <2>2, <2>5 DEF SegmentBreak
      <3> QED
        BY <2>1, <3>1, <3>2
    <2>6. CASE ~SegmentBreak(Get(prev), r)
      <3>1. r.prev_hash = lines[n].record_hash
        BY <2>2, <2>4, <2>6 DEF LinkBroken
      <3> QED
        BY <2>1, <2>3, <3>1
    <2> QED
      BY <2>5, <2>6
  <1> QED
    BY <1>1, <1>4, <1>5

\* Links: in a file without hash and link findings every line carries the
\* digest of the whole line before it, or opens a segment with a reported
\* break.
THEOREM LinksProved == VerifierSpec => []LinksBindContent
  <1>1. VerifierInit => FileInv /\ LinksBindContent
    <2> SUFFICES ASSUME VerifierInit PROVE LinksBindContent
      BY InitFile
    <2>1. Len(lines) = 0
      BY DEF VerifierInit
    <2> QED
      BY <2>1 DEF LinksBindContent
  <1>2. /\ FileInv /\ LinksBindContent /\ [VerifierNext]_verifierVars
        => FileInv' /\ LinksBindContent'
    <2> SUFFICES ASSUME FileInv, LinksBindContent, [VerifierNext]_verifierVars
                 PROVE  LinksBindContent'
      BY StepKeepsFile
    <2>1. CASE \E r : ReadRecord(r)
      BY <2>1, ReadKeepsLinks
    <2>2. CASE FileUnchanged
      BY <2>2 DEF FileUnchanged, LinksBindContent
    <2> QED
      BY <2>1, <2>2, StepKinds, Zenon
  <1> QED
    BY <1>1, <1>2, PTL DEF VerifierSpec

-----------------------------------------------------------------------------
(* The index of hashes by sequence number. *)

\* Reading a record keeps hashes_by_seq faithful: its sequence number is new.
LEMMA ReadKeepsIndex ==
    ASSUME FileInv, SeqRulesHold', HashIndexFaithful, NEW r, ReadRecord(r), r.seq \in Seqs
    PROVE  HashIndexFaithful'
  <1> DEFINE n == Len(lines)
  <1>1. /\ n \in Nat
        /\ \A i \in 1..n : lines'[i] = lines[i]
        /\ lines'[n + 1] = r
        /\ DOMAIN lines' = 1..(n + 1)
        /\ DOMAIN lines = 1..n
        /\ findings' = findings \cup RecordFindings(r)
    BY ReadFacts DEF FileInv
  <1>2. r.seq \in Nat /\ \A i \in 1..n : lines[i].seq \in Nat
    BY InputAssumption, Zenon DEF FileInv
  <1>3. hashes_by_seq' = [s \in DOMAIN hashes_by_seq \cup {r.seq} |->
                            IF s = r.seq THEN r.record_hash ELSE hashes_by_seq[s]]
    BY DEF ReadRecord, CollectStats
  <1> HIDE DEF n
  <1> SUFFICES ASSUME "seq_not_monotonic" \notin findings'
               PROVE  /\ DOMAIN hashes_by_seq' = {lines'[i].seq : i \in DOMAIN lines'}
                      /\ \A i \in DOMAIN lines' :
                            hashes_by_seq'[lines'[i].seq] = lines'[i].record_hash
    BY DEF HashIndexFaithful
  <1>4. /\ DOMAIN hashes_by_seq = {lines[i].seq : i \in 1..n}
        /\ \A i \in 1..n : hashes_by_seq[lines[i].seq] = lines[i].record_hash
    BY <1>1, Zenon DEF HashIndexFaithful
  <1>5. \A i \in 1..n : lines[i].seq # r.seq
    <2> TAKE i \in 1..n
    <2>1. i < n + 1 /\ i \in DOMAIN lines' /\ n + 1 \in DOMAIN lines'
      BY <1>1
    <2>2. lines'[i].seq < lines'[n + 1].seq
      BY <2>1 DEF SeqRulesHold
    <2> QED
      BY <2>2, <1>1, <1>2
  <1>6. {lines'[i].seq : i \in 1..(n + 1)} = {lines[i].seq : i \in 1..n} \cup {r.seq}
    <2>1. ASSUME NEW i \in 1..(n + 1)
          PROVE  lines'[i].seq \in {lines[k].seq : k \in 1..n} \cup {r.seq}
      BY <1>1
    <2>2. ASSUME NEW i \in 1..n
          PROVE  lines[i].seq \in {lines'[k].seq : k \in 1..(n + 1)}
      BY <1>1
    <2>3. r.seq \in {lines'[k].seq : k \in 1..(n + 1)}
      BY <1>1
    <2> QED
      BY <2>1, <2>2, <2>3
  <1>7. ASSUME NEW i \in 1..(n + 1)
        PROVE  hashes_by_seq'[lines'[i].seq] = lines'[i].record_hash
    <2>1. CASE i = n + 1
      BY <2>1, <1>1, <1>3
    <2>2. CASE i \in 1..n
      BY <2>2, <1>1, <1>3, <1>4, <1>5
    <2> QED
      BY <2>1, <2>2, <1>1
  <1> QED
    BY <1>1, <1>3, <1>4, <1>6, <1>7, Zenon

\* The seq -> hash index that checkpoint verification reads holds every line of
\* the file, unless a sequence finding says otherwise.  The proof needs the
\* sequence rules: distinct lines must have distinct sequence numbers.
THEOREM IndexProved == VerifierSpec => []HashIndexFaithful
  <1>1. VerifierInit => FileInv /\ HashIndexFaithful
    BY InitFile DEF VerifierInit, HashIndexFaithful
  <1>2. /\ FileInv /\ HashIndexFaithful /\ SeqRulesHold' /\ [VerifierNext]_verifierVars
        => FileInv' /\ HashIndexFaithful'
    <2> SUFFICES ASSUME FileInv, HashIndexFaithful, SeqRulesHold', [VerifierNext]_verifierVars
                 PROVE  HashIndexFaithful'
      BY StepKeepsFile
    <2>1. CASE \E r : ReadRecord(r) /\ r.seq \in Seqs
      BY <2>1, ReadKeepsIndex
    <2>2. CASE FileUnchanged
      BY <2>2 DEF FileUnchanged, HashIndexFaithful
    <2> QED
      BY <2>1, <2>2, StepKinds, Zenon
  <1> QED
    BY <1>1, <1>2, SeqRulesProved, PTL DEF VerifierSpec
-----------------------------------------------------------------------------
(* Clocks. *)

\* What the clock rules need beside FileInv: over a stretch without a
\* clock_anomaly that reaches the last line, the wall time verify_next compares
\* with, the last one that parsed, has fallen by at most the tolerance per line,
\* and is that of the first line of the stretch when no other line has one.
WallFalls(i) ==
    /\ prev_wall_ms # None
    /\ Get(prev_wall_ms) \in Int
    /\ Get(prev_wall_ms) + (Len(lines) - i) * WALL_TOLERANCE_MS
          >= Get(ParseWall(lines[i].ts_wall))
    /\ Unread(i + 1, Len(lines)) => prev_wall_ms = ParseWall(lines[i].ts_wall)

Steady(i, j) ==
    /\ ParseWall(lines[i].ts_wall) # None
    /\ \A k \in i..j : lines[k].record_type # "clock_anomaly"

ClockInv ==
    /\ \A i \in 1..Len(lines) : lines[i].ts_wall \in Walls /\ lines[i].ts_mono_ns \in Monos
    /\ "wall_clock_regression" \notin findings =>
          \A i \in 1..Len(lines) : Steady(i, Len(lines)) => WallFalls(i)

\* A time that parses is an integer number of milliseconds.
LEMMA WallIsInteger ==
    ASSUME NEW wall \in Walls, ParseWall(wall) # None
    PROVE  Get(ParseWall(wall)) \in Int
  BY RecordAssumption DEF ParseWall, None, Get

\* What verify_next has checked when it reads a line after a steady stretch.
LEMMA ReadChecksWall ==
    ASSUME LastLine, ClockInv, NEW r, ReadRecord(r), NEW n \in Nat, n = Len(lines),
           "wall_clock_regression" \notin findings', NEW i \in 1..n,
           ParseWall(lines[i].ts_wall) # None,
           \A k \in i..(n + 1) : lines'[k].record_type # "clock_anomaly"
    PROVE  /\ WallFalls(i)
           /\ Get(ParseWall(lines[i].ts_wall)) \in Int
           /\ ParseWall(r.ts_wall) # None =>
                 ~(Get(ParseWall(r.ts_wall)) - Get(prev_wall_ms) < -WALL_TOLERANCE_MS)
  <1>1. /\ \A k \in 1..n : lines'[k] = lines[k]
        /\ lines'[n + 1] = r
        /\ findings' = findings \cup RecordFindings(r)
    BY ReadFacts DEF LastLine
  <1>2. /\ prev = None <=> n = 0
        /\ n > 0 => Get(prev) = lines[n]
    BY PrevFacts
  <1>3. /\ n > 0 /\ n \in 1..n /\ n \in i..(n + 1) /\ n + 1 \in i..(n + 1)
        /\ \A k \in i..n : k \in i..(n + 1) /\ k \in 1..n
    OBVIOUS
  <1>4. /\ lines[n].record_type # "clock_anomaly" /\ r.record_type # "clock_anomaly"
        /\ \A k \in i..n : lines[k].record_type # "clock_anomaly"
    BY <1>1, <1>3
  <1>5. Steady(i, n)
    BY <1>4, Zenon DEF Steady
  <1>6. WallFalls(i)
    BY <1>1, <1>5 DEF ClockInv
  <1>7. lines[i].ts_wall \in Walls
    BY Zenon DEF ClockInv
  <1>8. prev # None /\ Get(prev) = lines[n]
    BY <1>2, <1>3
  <1>9. ~WallRegression(Get(prev), prev_wall_ms, r)
    BY <1>1, <1>8, Zenon DEF RecordFindings, NextFindings
  <1>10. prev_wall_ms # None
    BY <1>6, Zenon DEF WallFalls
  <1>11. ParseWall(r.ts_wall) # None =>
            ~(Get(ParseWall(r.ts_wall)) - Get(prev_wall_ms) < -WALL_TOLERANCE_MS)
    BY <1>4, <1>8, <1>9, <1>10, Zenon DEF WallRegression
  <1> QED
    BY <1>6, <1>7, <1>11, WallIsInteger, Zenon

\* Reading a record keeps it.
LEMMA ReadKeepsClock ==
    ASSUME LastLine, ClockInv, NEW r, ReadRecord(r), r.ts_wall \in Walls, r.ts_mono_ns \in Monos
    PROVE  ClockInv'
  <1> SUFFICES ASSUME NEW n \in Nat, n = Len(lines) PROVE ClockInv'
    BY ReadFacts DEF LastLine
  <1>1. /\ Len(lines') = n + 1
        /\ \A i \in 1..n : lines'[i] = lines[i]
        /\ lines'[n + 1] = r
        /\ findings' = findings \cup RecordFindings(r)
    BY ReadFacts DEF LastLine
  <1>4. prev_wall_ms' = IF ParseWall(r.ts_wall) = None THEN prev_wall_ms ELSE ParseWall(r.ts_wall)
    BY Zenon DEF ReadRecord, VerifyNext
  <1>5. ParseWall(r.ts_wall) # None => Get(ParseWall(r.ts_wall)) \in Int
    BY WallIsInteger
  <1>6. \A i \in 1..(n + 1) : lines'[i].ts_wall \in Walls /\ lines'[i].ts_mono_ns \in Monos
    BY <1>1 DEF ClockInv
  <1>7. ASSUME "wall_clock_regression" \notin findings', NEW i \in 1..(n + 1),
               ParseWall(lines'[i].ts_wall) # None,
               \A k \in i..(n + 1) : lines'[k].record_type # "clock_anomaly"
        PROVE  /\ prev_wall_ms' # None
               /\ Get(prev_wall_ms') \in Int
               /\ Get(prev_wall_ms') + (n + 1 - i) * WALL_TOLERANCE_MS
                     >= Get(ParseWall(lines'[i].ts_wall))
               /\ (\A k \in (i + 1)..(n + 1) : ParseWall(lines'[k].ts_wall) = None)
                     => prev_wall_ms' = ParseWall(lines'[i].ts_wall)
    <2>1. CASE i = n + 1
      <3>1. /\ ParseWall(r.ts_wall) # None /\ prev_wall_ms' = ParseWall(r.ts_wall)
            /\ lines'[i] = r
        BY <2>1, <1>1, <1>4, <1>7, Zenon
      <3> DEFINE now == Get(ParseWall(r.ts_wall))
      <3>3. now \in Int
        BY <3>1, <1>5
      <3> HIDE DEF now
      <3>4. now + (n + 1 - i) * WALL_TOLERANCE_MS >= now
        BY <2>1, <3>3 DEF WALL_TOLERANCE_MS
      <3> QED
        BY <3>1, <3>3, <3>4, Zenon DEF now
    <2>2. CASE i \in 1..n
      <3>1. /\ n + 1 \in (i + 1)..(n + 1)
            /\ \A k \in (i + 1)..n : k \in (i + 1)..(n + 1) /\ k \in 1..n
        BY <2>2
      <3>2. lines'[i] = lines[i] /\ \A k \in (i + 1)..n : lines'[k] = lines[k]
        BY <3>1, <2>2, <1>1, Zenon
      <3> DEFINE was == Get(prev_wall_ms)
                 start == Get(ParseWall(lines[i].ts_wall))
                 now == Get(ParseWall(r.ts_wall))
      <3>5. /\ WallFalls(i)
            /\ start \in Int
            /\ ParseWall(r.ts_wall) # None => ~(now - was < -WALL_TOLERANCE_MS)
        BY <3>2, <2>2, <1>7, ReadChecksWall, Zenon
      <3>6. /\ prev_wall_ms # None /\ was \in Int
            /\ was + (n - i) * WALL_TOLERANCE_MS >= start
            /\ Unread(i + 1, n) => prev_wall_ms = ParseWall(lines[i].ts_wall)
        BY <3>5, Zenon DEF WallFalls
      <3>8. CASE ParseWall(r.ts_wall) = None
        <4>1. prev_wall_ms' = prev_wall_ms
          BY <3>8, <1>4, Zenon
        <4>2. (\A k \in (i + 1)..(n + 1) : ParseWall(lines'[k].ts_wall) = None) => Unread(i + 1, n)
          BY <3>1, <3>2, Zenon DEF Unread
        <4> HIDE DEF was, start, now
        <4>3. was + (n + 1 - i) * WALL_TOLERANCE_MS >= start
          BY <3>5, <3>6, <2>2 DEF WALL_TOLERANCE_MS
        <4> QED
          BY <4>1, <4>2, <4>3, <3>2, <3>6, Zenon DEF was, start
      <3>9. CASE ParseWall(r.ts_wall) # None
        <4>1. prev_wall_ms' = ParseWall(r.ts_wall) /\ now \in Int
          BY <3>9, <1>4, <1>5, Zenon
        <4>2. ~\A k \in (i + 1)..(n + 1) : ParseWall(lines'[k].ts_wall) = None
          BY <3>1, <3>9, <1>1, Zenon
        <4> HIDE DEF was, start, now
        <4>3. now + (n + 1 - i) * WALL_TOLERANCE_MS >= start
          BY <4>1, <3>5, <3>6, <3>9, <2>2 DEF WALL_TOLERANCE_MS
        <4> QED
          BY <4>1, <4>2, <4>3, <3>2, <3>9, Zenon DEF now, start
      <3> QED
        BY <3>8, <3>9, Zenon
    <2> QED
      BY <2>1, <2>2
  <1>8. "wall_clock_regression" \notin findings' =>
           \A i \in 1..Len(lines') : Steady(i, Len(lines))' => WallFalls(i)'
    BY <1>1, <1>7, SMTT(30) DEF Steady, WallFalls, Unread
  <1>10. \A i \in 1..Len(lines') : lines'[i].ts_wall \in Walls /\ lines'[i].ts_mono_ns \in Monos
    BY <1>1, <1>6
  <1> QED
    BY <1>8, <1>10, Zenon DEF ClockInv

\* Reading a record keeps the clock rules.
LEMMA ReadKeepsClockRules ==
    ASSUME LastLine, ClockInv, ClockInv', ClockRulesHold,
           NEW r, ReadRecord(r)
    PROVE  ClockRulesHold'
  <1> SUFFICES ASSUME NEW n \in Nat, n = Len(lines) PROVE ClockRulesHold'
    BY ReadFacts DEF LastLine
  <1>1. /\ n \in Nat
        /\ Len(lines') = n + 1
        /\ \A i \in 1..n : lines'[i] = lines[i]
        /\ lines'[n + 1] = r
        /\ DOMAIN lines' = 1..(n + 1)
        /\ DOMAIN lines = 1..n
        /\ findings' = findings \cup RecordFindings(r)
    BY ReadFacts DEF LastLine
  <1>2. /\ prev = None <=> n = 0
        /\ n > 0 => Get(prev) = lines[n]
    BY PrevFacts
  <1>3. \A i \in 1..(n + 1) : lines'[i].ts_wall \in Walls /\ lines'[i].ts_mono_ns \in Nat
    BY <1>1, RecordAssumption, Zenon DEF ClockInv
  <1>4. ASSUME "monotonic_regression" \notin findings',
               NEW i \in 1..(n + 1), NEW j \in 1..(n + 1), i <= j,
               \A k \in i..j : lines'[k].segment_id = lines'[i].segment_id
        PROVE  lines'[i].ts_mono_ns <= lines'[j].ts_mono_ns
    <2>1. ASSUME NEW b \in 1..n, i <= b, b <= j
          PROVE  lines'[i].ts_mono_ns <= lines'[b].ts_mono_ns
      <3>1. i \in 1..n /\ lines'[i] = lines[i] /\ lines'[b] = lines[b]
        BY <2>1, <1>1
      <3>2. \A k \in i..b : k \in 1..n /\ k \in i..j
        BY <2>1, <1>1
      <3>3. \A k \in i..b : lines[k].segment_id = lines[i].segment_id
        BY <3>1, <3>2, <1>1, <1>4
      <3>4. "monotonic_regression" \notin findings
        BY <1>1, <1>4
      <3> QED
        BY <2>1, <3>1, <3>3, <3>4, <1>1, SMTT(30) DEF ClockRulesHold, OneSegment
    <2>2. CASE j <= n
      BY <2>1, <2>2, <1>1, <1>4
    <2>3. CASE i = j
      BY <2>3, <1>3
    <2>4. CASE j = n + 1 /\ i < j
      <3>1. n > 0 /\ n \in 1..n /\ i \in 1..n /\ n \in i..j /\ j \in i..j
        BY <2>4, <1>1
      <3>2. r.segment_id = lines[n].segment_id
        BY <3>1, <2>4, <1>1, <1>4
      <3>3. ~MonoRegression(Get(prev), r)
        <4>1. prev # None
          BY <3>1, <1>2
        <4> QED
          BY <4>1, <1>1, <1>4, Zenon DEF RecordFindings, NextFindings
      <3>4. ~(r.ts_mono_ns < lines[n].ts_mono_ns)
        BY <3>1, <3>2, <3>3, <1>2 DEF MonoRegression
      <3>5. lines'[n].ts_mono_ns \in Nat /\ r.ts_mono_ns \in Nat /\ lines'[n] = lines[n]
        BY <3>1, <1>1, <1>3
      <3>6. lines'[i].ts_mono_ns <= lines'[n].ts_mono_ns /\ lines'[i].ts_mono_ns \in Nat
        BY <3>1, <2>1, <2>4, <1>3
      <3> QED
        BY <3>4, <3>5, <3>6, <2>4, <1>1
    <2> QED
      BY <2>2, <2>3, <2>4, <1>1, <1>4
  <1>5. ASSUME "wall_clock_regression" \notin findings',
               NEW i \in 1..(n + 1), NEW j \in 1..(n + 1), i < j,
               ParseWall(lines'[i].ts_wall) # None, ParseWall(lines'[j].ts_wall) # None,
               \A k \in i..j : lines'[k].record_type # "clock_anomaly"
        PROVE  /\ Get(ParseWall(lines'[j].ts_wall)) + (j - i) * WALL_TOLERANCE_MS
                     >= Get(ParseWall(lines'[i].ts_wall))
               /\ (\A k \in (i + 1)..(j - 1) : ParseWall(lines'[k].ts_wall) = None) =>
                     Get(ParseWall(lines'[j].ts_wall)) + WALL_TOLERANCE_MS
                        >= Get(ParseWall(lines'[i].ts_wall))
    <2>0. i \in 1..n /\ lines'[i] = lines[i]
      BY <1>1, <1>5
    <2>1. CASE j \in 1..n
      <3>1. (\A k \in i..j : k \in 1..n) /\ (\A k \in (i + 1)..(j - 1) : k \in 1..n)
        BY <2>0, <2>1
      <3>2. /\ lines'[j] = lines[j]
            /\ \A k \in i..j : lines[k].record_type # "clock_anomaly"
        BY <3>1, <2>1, <1>1, <1>5, Zenon
      <3>3. (\A k \in (i + 1)..(j - 1) : ParseWall(lines'[k].ts_wall) = None)
               <=> Unread(i + 1, j - 1)
        BY <3>1, <1>1, Zenon DEF Unread
      <3>4. "wall_clock_regression" \notin findings
        BY <1>1, <1>5
      <3> QED
        BY <3>2, <3>3, <3>4, <2>0, <2>1, <1>1, <1>5, Zenon DEF ClockRulesHold
    <2>2. CASE j = n + 1
      <3> DEFINE was == Get(prev_wall_ms)
                 start == Get(ParseWall(lines[i].ts_wall))
                 now == Get(ParseWall(r.ts_wall))
      <3>1. lines'[j] = r /\ ParseWall(r.ts_wall) # None
        BY <2>2, <1>1, <1>5, Zenon
      <3>2. /\ WallFalls(i)
            /\ start \in Int
            /\ ~(now - was < -WALL_TOLERANCE_MS)
        BY <2>0, <2>2, <3>1, <1>5, ReadChecksWall, Zenon
      <3>3. /\ was \in Int
            /\ was + (n - i) * WALL_TOLERANCE_MS >= start
            /\ Unread(i + 1, n) => was = start
        BY <3>2, Zenon DEF WallFalls
      <3>4. now \in Int
        BY <3>1, <1>1, <1>3, WallIsInteger
      <3>5. j - 1 = n /\ \A k \in (i + 1)..n : k \in 1..n
        BY <2>0, <2>2
      <3>6. (\A k \in (i + 1)..(j - 1) : ParseWall(lines'[k].ts_wall) = None) => Unread(i + 1, n)
        BY <3>5, <1>1, Zenon DEF Unread
      <3> HIDE DEF was, start, now
      <3>7. now + (j - i) * WALL_TOLERANCE_MS >= start
        BY <3>2, <3>3, <3>4, <2>0, <2>2, SMTT(30) DEF WALL_TOLERANCE_MS
      <3>8. was = start => now + WALL_TOLERANCE_MS >= start
        BY <3>2, <3>3, <3>4 DEF WALL_TOLERANCE_MS
      <3> QED
        BY <3>1, <3>3, <3>6, <3>7, <3>8, <2>0, Zenon DEF start, now
    <2> QED
      BY <2>1, <2>2, <1>1
  <1>6. "monotonic_regression" \notin findings' =>
           \A i, j \in DOMAIN lines' :
              i <= j /\ (\A k \in i..j : lines'[k].segment_id = lines'[i].segment_id)
                 => lines'[i].ts_mono_ns <= lines'[j].ts_mono_ns
    BY <1>1, <1>4, Zenon
  <1>7. "wall_clock_regression" \notin findings' =>
           \A i, j \in DOMAIN lines' :
              /\ i < j
              /\ ParseWall(lines'[i].ts_wall) # None /\ ParseWall(lines'[j].ts_wall) # None
              /\ \A k \in i..j : lines'[k].record_type # "clock_anomaly"
              => /\ Get(ParseWall(lines'[j].ts_wall)) + (j - i) * WALL_TOLERANCE_MS
                       >= Get(ParseWall(lines'[i].ts_wall))
                 /\ (\A k \in (i + 1)..(j - 1) : ParseWall(lines'[k].ts_wall) = None) =>
                       Get(ParseWall(lines'[j].ts_wall)) + WALL_TOLERANCE_MS
                          >= Get(ParseWall(lines'[i].ts_wall))
    BY <1>1, <1>5, Zenon
  <1> QED
    BY <1>6, <1>7 DEF ClockRulesHold, OneSegment, Unread

\* Clocks: a file without regression findings keeps its monotonic clock over any
\* unbroken stretch of a segment, and its wall clock loses at most the tolerance
\* per line over any stretch without a clock_anomaly, however long, and once only
\* between two readable times with none in between.
THEOREM ClockRulesProved == VerifierSpec => []ClockRulesHold
  <1>1. VerifierInit => FileInv /\ ClockInv /\ ClockRulesHold
    <2> SUFFICES ASSUME VerifierInit PROVE ClockInv /\ ClockRulesHold
      BY InitFile
    <2>1. lines = <<>> /\ Len(lines) = 0 /\ DOMAIN lines = {}
      BY DEF VerifierInit
    <2> QED
      BY <2>1 DEF ClockInv, ClockRulesHold
  <1>2. /\ FileInv /\ ClockInv /\ ClockRulesHold /\ [VerifierNext]_verifierVars
        => FileInv' /\ ClockInv' /\ ClockRulesHold'
    <2> SUFFICES ASSUME FileInv, ClockInv, ClockRulesHold, [VerifierNext]_verifierVars
                 PROVE  ClockInv' /\ ClockRulesHold'
      BY StepKeepsFile
    <2>1. CASE \E r : ReadRecord(r) /\ r.ts_wall \in Walls /\ r.ts_mono_ns \in Monos
      <3>1. PICK r : ReadRecord(r) /\ r.ts_wall \in Walls /\ r.ts_mono_ns \in Monos
        BY <2>1
      <3>2. ClockInv'
        BY <3>1, ReadKeepsClock, FileLastLine
      <3> QED
        BY <3>1, <3>2, ReadKeepsClockRules, FileLastLine
    <2>2. CASE FileUnchanged /\ UNCHANGED prev_wall_ms
      <3>1. UNCHANGED <<lines, prev_wall_ms>> /\ findings \subseteq findings'
        BY <2>2, Zenon DEF FileUnchanged
      <3>2. ClockInv'
        BY <3>1, Zenon DEF ClockInv, Steady, WallFalls, Unread
      <3>4. \A i, j : OneSegment(i, j)' <=> OneSegment(i, j)
        BY <3>1, Zenon DEF OneSegment
      <3>3. \A i, j : Unread(i, j)' <=> Unread(i, j)
        BY <3>1, Zenon DEF Unread
      <3>5. ClockRulesHold'
        BY <3>1, <3>3, <3>4, Zenon DEF ClockRulesHold
      <3> QED
        BY <3>2, <3>5
    <2> QED
      BY <2>1, <2>2, StepKinds, Zenon
  <1> QED
    BY <1>1, <1>2, PTL DEF VerifierSpec

-----------------------------------------------------------------------------
(* Clean ends. *)

IsSegmentEnd(r) == r.record_type = "lifecycle" /\ r.content = "segment_end"

\* The statistics list the segments of the lines read, and those of the
\* segment_end lines among them.
SegmentsInv ==
    /\ IsSeq(lines)
    /\ IsSeq(segments_seen)
    /\ \A i \in 1..Len(segments_seen) : \E k \in 1..Len(lines) :
          segments_seen[i] = lines[k].segment_id
    /\ \A k \in 1..Len(lines) : \E i \in 1..Len(segments_seen) :
          segments_seen[i] = lines[k].segment_id
    /\ \A s : s \in segments_ended
                 <=> \E k \in 1..Len(lines) : lines[k].segment_id = s /\ IsSegmentEnd(lines[k])

\* Reading a record keeps the segment statistics.
LEMMA ReadKeepsSegments ==
    ASSUME SegmentsInv, NEW r, ReadRecord(r)
    PROVE  SegmentsInv'
  <1> DEFINE n == Len(lines)
             m == Len(segments_seen)
  <1>1. /\ n \in Nat
        /\ IsSeq(lines')
        /\ Len(lines') = n + 1
        /\ \A i \in 1..n : lines'[i] = lines[i]
        /\ lines'[n + 1] = r
    BY ReadFacts DEF SegmentsInv
  <1>2. m \in Nat
    BY AppendFacts DEF SegmentsInv
  <1>3. segments_seen' = IF segments_seen # <<>> /\ segments_seen[m] = r.segment_id
                         THEN segments_seen ELSE Append(segments_seen, r.segment_id)
    BY DEF ReadRecord, CollectStats
  <1>4. /\ IsSeq(segments_seen')
        /\ Len(segments_seen') \in Nat
        /\ Len(segments_seen') >= m
        /\ \A i \in 1..m : segments_seen'[i] = segments_seen[i]
        /\ \A i \in 1..Len(segments_seen') : i \in 1..m \/ segments_seen'[i] = r.segment_id
        /\ \E i \in 1..Len(segments_seen') : segments_seen'[i] = r.segment_id
    <2>1. CASE segments_seen # <<>> /\ segments_seen[m] = r.segment_id
      <3>1. m > 0
        BY <2>1 DEF SegmentsInv, IsSeq
      <3> QED
        BY <2>1, <3>1, <1>2, <1>3 DEF SegmentsInv
    <2>2. CASE ~(segments_seen # <<>> /\ segments_seen[m] = r.segment_id)
      <3>1. segments_seen' = Append(segments_seen, r.segment_id)
        BY <2>2, <1>3
      <3>2. /\ IsSeq(segments_seen')
            /\ Len(segments_seen') = m + 1
            /\ \A i \in 1..m : segments_seen'[i] = segments_seen[i]
            /\ segments_seen'[m + 1] = r.segment_id
        BY <3>1, AppendFacts DEF SegmentsInv
      <3> QED
        BY <3>2, <1>2
    <2> QED
      BY <2>1, <2>2
  <1>5. segments_ended' = segments_ended \cup IF IsSegmentEnd(r) THEN {r.segment_id} ELSE {}
    BY DEF ReadRecord, CollectStats, IsSegmentEnd
  <1> HIDE DEF n, m
  <1>6. \A i \in 1..Len(segments_seen') : \E k \in 1..(n + 1) :
           segments_seen'[i] = lines'[k].segment_id
    <2> TAKE i \in 1..Len(segments_seen')
    <2>1. CASE i \in 1..m
      <3>1. PICK k \in 1..n : segments_seen[i] = lines[k].segment_id
        BY <2>1 DEF SegmentsInv, n, m
      <3> QED
        BY <2>1, <3>1, <1>1, <1>4
    <2>2. CASE segments_seen'[i] = r.segment_id
      BY <2>2, <1>1
    <2> QED
      BY <2>1, <2>2, <1>4
  <1>7. \A k \in 1..(n + 1) : \E i \in 1..Len(segments_seen') :
           segments_seen'[i] = lines'[k].segment_id
    <2> TAKE k \in 1..(n + 1)
    <2>1. CASE k \in 1..n
      <3>1. PICK i \in 1..m : segments_seen[i] = lines[k].segment_id
        BY <2>1 DEF SegmentsInv, n, m
      <3>2. i \in 1..Len(segments_seen')
        BY <1>2, <1>4 DEF m
      <3> QED
        BY <2>1, <3>1, <3>2, <1>1, <1>4
    <2>2. CASE k = n + 1
      BY <2>2, <1>1, <1>4
    <2> QED
      BY <2>1, <2>2, <1>1
  <1>8. ASSUME NEW s
        PROVE  s \in segments_ended'
                  <=> \E k \in 1..(n + 1) : lines'[k].segment_id = s /\ IsSegmentEnd(lines'[k])
    <2>1. s \in segments_ended
             <=> \E k \in 1..n : lines[k].segment_id = s /\ IsSegmentEnd(lines[k])
      BY Zenon DEF SegmentsInv, n
    <2>2. ASSUME s \in segments_ended'
          PROVE  \E k \in 1..(n + 1) : lines'[k].segment_id = s /\ IsSegmentEnd(lines'[k])
      <3>1. CASE s \in segments_ended
        <4>1. PICK k \in 1..n : lines[k].segment_id = s /\ IsSegmentEnd(lines[k])
          BY <3>1, <2>1
        <4>2. k \in 1..(n + 1) /\ lines'[k] = lines[k]
          BY <1>1
        <4> QED
          BY <4>1, <4>2
      <3>2. CASE IsSegmentEnd(r) /\ s = r.segment_id
        <4>1. n + 1 \in 1..(n + 1)
          BY <1>1
        <4> QED
          BY <4>1, <3>2, <1>1
      <3> QED
        BY <3>1, <3>2, <2>2, <1>5
    <2>3. ASSUME NEW k \in 1..(n + 1), lines'[k].segment_id = s, IsSegmentEnd(lines'[k])
          PROVE  s \in segments_ended'
      <3>1. CASE k \in 1..n
        <4>1. lines[k].segment_id = s /\ IsSegmentEnd(lines[k])
          BY <3>1, <2>3, <1>1
        <4> QED
          BY <3>1, <4>1, <2>1, <1>5
      <3>2. CASE k = n + 1
        BY <3>2, <2>3, <1>1, <1>5
      <3> QED
        BY <3>1, <3>2, <1>1
    <2> QED
      BY <2>2, <2>3
  <1> QED
    <2>1. /\ \A i \in 1..Len(segments_seen') : \E k \in 1..Len(lines') :
                segments_seen'[i] = lines'[k].segment_id
          /\ \A k \in 1..Len(lines') : \E i \in 1..Len(segments_seen') :
                segments_seen'[i] = lines'[k].segment_id
      BY <1>1, <1>6, <1>7, Zenon
    <2>2. \A s : s \in segments_ended'
             <=> \E k \in 1..Len(lines') : lines'[k].segment_id = s /\ IsSegmentEnd(lines'[k])
      BY <1>1, <1>8, Zenon
    <2> QED
      BY <1>1, <1>4, <2>1, <2>2, Zenon DEF SegmentsInv

\* Clean ends: the segments listed without a clean end are exactly those read
\* whose records hold no segment_end, although segments_seen drops only direct
\* repeats and so may list a segment twice.
THEOREM EndsProved == VerifierSpec => []EndsReported
  <1>1. VerifierInit => SegmentsInv
    <2> SUFFICES ASSUME VerifierInit PROVE SegmentsInv
      OBVIOUS
    <2>1. lines = <<>> /\ segments_seen = <<>> /\ segments_ended = {}
      BY DEF VerifierInit
    <2>2. IsSeq(<<>>) /\ Len(<<>>) = 0
      BY DEF IsSeq
    <2> QED
      BY <2>1, <2>2 DEF SegmentsInv
  <1>2. SegmentsInv /\ [VerifierNext]_verifierVars => SegmentsInv'
    <2> SUFFICES ASSUME SegmentsInv, [VerifierNext]_verifierVars PROVE SegmentsInv'
      OBVIOUS
    <2>1. CASE \E r : ReadRecord(r)
      BY <2>1, ReadKeepsSegments
    <2>2. CASE FileUnchanged
      BY <2>2 DEF FileUnchanged, SegmentsInv
    <2> QED
      BY <2>1, <2>2, StepKinds, Zenon
  <1>3. SegmentsInv => EndsReported
    <2> SUFFICES ASSUME SegmentsInv PROVE EndsReported
      OBVIOUS
    <2>1. /\ DOMAIN lines = 1..Len(lines)
          /\ DOMAIN segments_seen = 1..Len(segments_seen)
      BY DEF SegmentsInv, IsSeq
    <2> DEFINE Ended == {lines[i].segment_id : i \in {k \in DOMAIN lines :
                            /\ lines[k].record_type = "lifecycle"
                            /\ lines[k].content = "segment_end"}}
    <2>2. \A s : s \in segments_ended <=> s \in Ended
      <3> TAKE s
      <3>1. s \in segments_ended
               <=> \E k \in 1..Len(lines) : lines[k].segment_id = s /\ IsSegmentEnd(lines[k])
        BY DEF SegmentsInv
      <3>2. s \in Ended
               <=> \E k \in 1..Len(lines) : lines[k].segment_id = s /\ IsSegmentEnd(lines[k])
        BY <2>1 DEF IsSegmentEnd
      <3> QED
        BY <3>1, <3>2
    <2> HIDE DEF Ended
    <2>3. ASSUME NEW i \in SegmentsWithoutEnd
          PROVE  segments_seen[i] \in {lines[k].segment_id : k \in DOMAIN lines} \ Ended
      <3>1. i \in 1..Len(segments_seen) /\ segments_seen[i] \notin Ended
        BY <2>1, <2>2 DEF SegmentsWithoutEnd
      <3>2. PICK k \in 1..Len(lines) : segments_seen[i] = lines[k].segment_id
        BY <3>1 DEF SegmentsInv
      <3> QED
        BY <3>1, <3>2, <2>1
    <2>4. ASSUME NEW k \in DOMAIN lines, lines[k].segment_id \notin Ended
          PROVE  lines[k].segment_id \in {segments_seen[i] : i \in SegmentsWithoutEnd}
      <3>1. PICK i \in 1..Len(segments_seen) : segments_seen[i] = lines[k].segment_id
        BY <2>1 DEF SegmentsInv
      <3>2. i \in SegmentsWithoutEnd
        BY <3>1, <2>1, <2>2, <2>4 DEF SegmentsWithoutEnd
      <3> QED
        BY <3>1, <3>2
    <2>5. {segments_seen[i] : i \in SegmentsWithoutEnd}
             = {lines[k].segment_id : k \in DOMAIN lines} \ Ended
      BY <2>3, <2>4
    <2> QED
      BY <2>5, Zenon DEF EndsReported, Ended
  <1> QED
    BY <1>1, <1>2, <1>3, PTL DEF VerifierSpec

-----------------------------------------------------------------------------
(* The recorder and the verifier together. *)

\* The recorder's chain: the durable log and then the pending records.
ChainLen == Len(log) + Len(pending)
ChainAt(i) == IF i <= Len(log) THEN log[i] ELSE pending[i - Len(log)]

IsRecord(r) ==
    r = Record(r.stream_id, r.segment_id, r.seq, r.ts_wall, r.ts_mono_ns,
               r.record_type, r.content, r.prev_hash, r.record_hash)

Hashed(r) == IsRecord(r) /\ r.record_hash = ComputeHash(r)

ChainInv ==
    /\ IsSeq(log)
    /\ IsSeq(pending)
    /\ \A i \in 1..ChainLen : Hashed(ChainAt(i))
    /\ ChainLen > 0 => ChainAt(1).prev_hash = GenesisPrevHash(StreamId)
    /\ \A i \in 2..ChainLen :
          \/ ChainAt(i).prev_hash = ChainAt(i - 1).record_hash
          \/ \E s \in Segments : ChainAt(i).prev_hash = SegmentBreakPrevHash(StreamId, s)

HeadInv ==
    /\ head = None => pending = <<>>
    /\ head # None =>
          \/ ChainLen = 0 /\ Get(head).head_hash = GenesisPrevHash(StreamId)
          \/ ChainLen > 0 /\ Get(head).head_hash = ChainAt(ChainLen).record_hash
          \/ /\ ChainLen > 0
             /\ \E s \in Segments : Get(head).head_hash = SegmentBreakPrevHash(StreamId, s)

LinesInv ==
    /\ IsSeq(lines)
    /\ "record_hash_mismatch" \notin findings => \A i \in 1..Len(lines) : Hashed(lines[i])

ProvenanceInv ==
    "record_hash_mismatch" \notin findings =>
       \A e \in 1..Len(lines), j \in 1..ChainLen :
          lines[e].record_hash = ChainAt(j).record_hash =>
             \A d \in 0..(e - 1) :
                (\A k \in (e - d + 1)..e : lines[k].prev_hash = lines[k - 1].record_hash) =>
                   d < j /\ lines[e - d] = ChainAt(j - d)

IInv == ChainInv /\ HeadInv /\ LinesInv /\ ProvenanceInv

-----------------------------------------------------------------------------
(* Digests. *)

\* Records with equal digests are equal: the digest covers every other field.
LEMMA HashInjective ==
    ASSUME NEW a, NEW b, Hashed(a), Hashed(b), a.record_hash = b.record_hash
    PROVE  a = b
  <1>1. ComputeHash(a) = ComputeHash(b)
    BY DEF Hashed
  <1>2. /\ a.stream_id = b.stream_id
        /\ a.segment_id = b.segment_id
        /\ a.seq = b.seq
        /\ a.ts_wall = b.ts_wall
        /\ a.ts_mono_ns = b.ts_mono_ns
        /\ a.record_type = b.record_type
        /\ a.content = b.content
        /\ a.prev_hash = b.prev_hash
    BY <1>1 DEF ComputeHash
  <1>3. a.record_hash = b.record_hash
    OBVIOUS
  <1> QED
    BY <1>2, <1>3 DEF Hashed, IsRecord

\* The digest of a record is never one of the sentinels.
LEMMA HashNotSentinel ==
    ASSUME NEW r
    PROVE  /\ ComputeHash(r) # GenesisPrevHash(StreamId)
           /\ \A s : ComputeHash(r) # SegmentBreakPrevHash(StreamId, s)
  BY DEF ComputeHash, GenesisPrevHash, SegmentBreakPrevHash

\* The digest does not depend on the record_hash field, and finalize() keeps
\* the record's shape.
LEMMA FinalizedHashed ==
    ASSUME NEW r, IsRecord(r)
    PROVE  /\ Hashed(Finalized(r))
           /\ Finalized(r).prev_hash = r.prev_hash
  BY DEF Hashed, IsRecord, Finalized, ComputeHash, Record

\* append() sets two fields of the draft and keeps its shape.
LEMMA ChainedIsRecord ==
    ASSUME NEW h, NEW draft, IsRecord(draft)
    PROVE  /\ IsRecord(Chained(h, draft))
           /\ Chained(h, draft).prev_hash = h.head_hash
  <1> DEFINE numbered == [draft EXCEPT !.seq = NextSeq(h)]
  <1>1. IsRecord(numbered)
    BY DEF IsRecord, Record
  <1>2. Chained(h, draft) = [numbered EXCEPT !.prev_hash = h.head_hash]
    BY Zenon DEF Chained
  <1> HIDE DEF numbered
  <1>3. /\ IsRecord([numbered EXCEPT !.prev_hash = h.head_hash])
        /\ [numbered EXCEPT !.prev_hash = h.head_hash].prev_hash = h.head_hash
    BY <1>1 DEF IsRecord, Record
  <1> QED
    BY <1>2, <1>3

-----------------------------------------------------------------------------
(* The chain. *)

\* Writing the oldest pending record to the log leaves the chain as it is.
LEMMA PersistKeepsChain ==
    ASSUME IsSeq(log), IsSeq(pending), PersistRecord
    PROVE  /\ IsSeq(log') /\ IsSeq(pending')
           /\ ChainLen \in Nat /\ ChainLen' = ChainLen
           /\ \A i \in 1..ChainLen : ChainAt(i)' = ChainAt(i)
           /\ Len(log) \in Nat /\ Len(log) < ChainLen
           /\ Len(log') = Len(log) + 1
           /\ log'[Len(log) + 1] = Head(pending)
           /\ ChainAt(Len(log) + 1) = Head(pending)
           /\ \A i \in 1..Len(log) : log'[i] = log[i]
  <1>1. /\ pending # <<>>
        /\ log' = Append(log, Head(pending))
        /\ pending' = Tail(pending)
    BY DEF PersistRecord
  <1>2. /\ IsSeq(log') /\ Len(log) \in Nat /\ Len(log') = Len(log) + 1
        /\ \A i \in 1..Len(log) : log'[i] = log[i]
        /\ log'[Len(log) + 1] = Head(pending)
    BY <1>1, AppendFacts
  <1>3. /\ IsSeq(pending') /\ Len(pending) \in Nat /\ Len(pending) > 0
        /\ Len(pending') = Len(pending) - 1
        /\ \A i \in 1..(Len(pending) - 1) : pending'[i] = pending[i + 1]
        /\ Head(pending) = pending[1]
    BY <1>1, TailFacts
  <1>4. ChainLen \in Nat /\ ChainLen' = ChainLen /\ Len(log) < ChainLen
    BY <1>2, <1>3 DEF ChainLen
  <1>5. ASSUME NEW i \in 1..ChainLen
        PROVE  ChainAt(i)' = ChainAt(i)
    <2>1. CASE i <= Len(log)
      BY <2>1, <1>2 DEF ChainAt
    <2>2. CASE i = Len(log) + 1
      BY <2>2, <1>2, <1>3 DEF ChainAt
    <2>3. CASE i > Len(log) + 1
      <3>1. /\ i - Len(log) - 1 \in 1..(Len(pending) - 1)
            /\ i - Len(log') = i - Len(log) - 1
            /\ ~(i <= Len(log')) /\ ~(i <= Len(log))
        BY <2>3, <1>2, <1>3 DEF ChainLen
      <3>2. pending'[i - Len(log) - 1] = pending[i - Len(log)]
        BY <3>1, <1>2, <1>3, SMTT(30)
      <3> QED
        BY <3>1, <3>2 DEF ChainAt
    <2> QED
      BY <2>1, <2>2, <2>3, <1>2
  <1>6. ChainAt(Len(log) + 1) = Head(pending)
    BY <1>2, <1>3 DEF ChainAt
  <1> QED
    BY <1>2, <1>3, <1>4, <1>5, <1>6

\* append() extends the chain by one record.
LEMMA AppendExtendsChain ==
    ASSUME IsSeq(log), IsSeq(pending), NEW r, log' = log, pending' = Append(pending, r)
    PROVE  /\ IsSeq(pending')
           /\ ChainLen \in Nat /\ ChainLen' = ChainLen + 1
           /\ \A i \in 1..ChainLen : ChainAt(i)' = ChainAt(i)
           /\ \A i : i = ChainLen + 1 => ChainAt(i)' = r
  <1>1. /\ IsSeq(pending') /\ Len(log) \in Nat /\ Len(pending) \in Nat
        /\ Len(pending') = Len(pending) + 1
        /\ \A i \in 1..Len(pending) : pending'[i] = pending[i]
        /\ pending'[Len(pending) + 1] = r
    BY AppendFacts
  <1>2. ChainLen \in Nat /\ ChainLen' = ChainLen + 1
    BY <1>1 DEF ChainLen
  <1>3. \A i \in 1..ChainLen : ChainAt(i)' = ChainAt(i)
    BY <1>1 DEF ChainAt, ChainLen
  <1>4. \A i : i = ChainLen + 1 => ChainAt(i)' = r
    BY <1>1 DEF ChainAt, ChainLen
  <1> QED
    BY <1>1, <1>2, <1>3, <1>4

\* A crash keeps the durable part of the chain.
LEMMA CrashCutsChain ==
    ASSUME IsSeq(log), IsSeq(pending), Crash
    PROVE  /\ IsSeq(log') /\ IsSeq(pending')
           /\ Len(log) \in Nat /\ ChainLen \in Nat
           /\ ChainLen' = Len(log) /\ ChainLen' <= ChainLen
           /\ \A i \in 1..ChainLen' : ChainAt(i)' = ChainAt(i)
  <1>1. log' = log /\ pending' = <<>>
    BY DEF Crash
  <1>2. Len(log) \in Nat /\ Len(pending) \in Nat
    BY AppendFacts
  <1>3. ChainLen \in Nat /\ ChainLen' = Len(log) /\ ChainLen' <= ChainLen
    BY <1>1, <1>2 DEF ChainLen
  <1>4. \A i \in 1..ChainLen' : ChainAt(i)' = ChainAt(i)
    BY <1>1, <1>2, <1>3 DEF ChainAt
  <1>5. IsSeq(log') /\ IsSeq(pending')
    BY <1>1 DEF IsSeq
  <1> QED
    BY <1>2, <1>3, <1>4, <1>5

-----------------------------------------------------------------------------
(* One step of the recorder or of the verifier. *)

\* A step that leaves the file alone and keeps a prefix of the chain (a boot, a
\* record made durable, a crash that drops the pending records) preserves all
\* that is known about the chain.
LEMMA PrefixStep ==
    ASSUME IInv,
           IsSeq(log)', IsSeq(pending)',
           ChainLen \in Nat, ChainLen' \in Nat, ChainLen' <= ChainLen,
           \A i \in 1..ChainLen' : ChainAt(i)' = ChainAt(i),
           UNCHANGED <<lines, findings>>
    PROVE  ChainInv' /\ LinesInv' /\ ProvenanceInv'
  <1>1. ChainInv'
    BY DEF IInv, ChainInv
  <1>2. LinesInv'
    BY DEF IInv, LinesInv
  <1>3. ProvenanceInv'
    <2> SUFFICES ASSUME "record_hash_mismatch" \notin findings,
                        NEW e \in 1..Len(lines), NEW j \in 1..ChainLen',
                        lines[e].record_hash = ChainAt(j)'.record_hash,
                        NEW d \in 0..(e - 1),
                        \A k \in (e - d + 1)..e : lines[k].prev_hash = lines[k - 1].record_hash
                 PROVE  d < j /\ lines[e - d] = ChainAt(j - d)'
      BY Zenon DEF ProvenanceInv
    <2>1. j \in 1..ChainLen /\ ChainAt(j)' = ChainAt(j)
      OBVIOUS
    <2>2. d < j /\ lines[e - d] = ChainAt(j - d)
      <3>1. ProvenanceInv
        BY DEF IInv
      <3>2. lines[e].record_hash = ChainAt(j).record_hash
        BY <2>1
      <3> QED
        BY <2>1, <3>1, <3>2, Zenon DEF ProvenanceInv
    <2>3. j - d \in 1..ChainLen'
      BY <2>2
    <2> QED
      BY <2>2, <2>3
  <1> QED
    BY <1>1, <1>2, <1>3

\* The lengths behind the chain.
LEMMA ChainLenNat ==
    ASSUME IInv
    PROVE  Len(log) \in Nat /\ Len(pending) \in Nat /\ ChainLen \in Nat
  BY AppendFacts DEF IInv, ChainInv, ChainLen

\* The heads that genesis and resume return.
LEMMA HeadFields ==
    /\ Genesis.stream_id = StreamId
    /\ Genesis.head_hash = GenesisPrevHash(StreamId)
    /\ NextSeq(Genesis) = 0
    /\ \A h, q : /\ ResumeHead(h, q).stream_id = StreamId
                 /\ ResumeHead(h, q).head_hash = h
                 /\ NextSeq(ResumeHead(h, q)) = q + 1
  BY DEF Genesis, ResumeHead, NewHead, NextSeq, None, Some, Get

\* A restart of the recorder at its persisted head keeps the invariant.
LEMMA BootStep ==
    ASSUME IInv, StaleHeads = FALSE,
           StartStream \/ Resume \/ ResumeAfterLoss,
           UNCHANGED <<lines, findings>>
    PROVE  IInv'
  <1>1. /\ head = None
        /\ pending = <<>>
        /\ UNCHANGED <<log, pending>>
        /\ head' # None
    <2>1. /\ head = None
          /\ UNCHANGED <<log, pending>>
          /\ \E h : head' = Some(h)
      BY Zenon DEF StartStream, Resume, ResumeAfterLoss
    <2>2. \A h : Some(h) # None
      BY DEF Some, None
    <2> QED
      BY <2>1, <2>2, Zenon DEF IInv, HeadInv
  <1>2. Len(log) \in Nat /\ ChainLen = Len(log) /\ ChainLen' = ChainLen
    BY <1>1, ChainLenNat DEF ChainLen
  <1>3. \A i : ChainAt(i)' = ChainAt(i)
    BY <1>1, SMTT(30) DEF ChainAt
  <1>4. ChainInv' /\ LinesInv' /\ ProvenanceInv'
    BY <1>1, <1>2, <1>3, PrefixStep DEF IInv, ChainInv
  <1>5. HeadInv'
    <2>1. CASE StartStream
      <3>1. log = <<>> /\ Get(head') = Genesis
        BY <2>1 DEF StartStream, Get, Some
      <3> QED
        BY <1>1, <1>2, <3>1 DEF HeadInv, Genesis, NewHead
    <2>2. CASE Resume
      <3>1. PICK k \in DOMAIN log :
               /\ k = Len(log)
               /\ Get(head') = ResumeHead(log[k].record_hash, log[k].seq)
        BY <2>2, SMTT(30) DEF Resume, Get, Some
      <3>2. Len(log) > 0 /\ ChainAt(ChainLen)' = log[k]
        BY <1>1, <1>2, <1>3, <3>1, SMTT(30) DEF ChainAt, IInv, ChainInv, IsSeq
      <3> QED
        BY <1>1, <1>2, <3>1, <3>2 DEF HeadInv, ResumeHead, NewHead
    <2>3. CASE ResumeAfterLoss
      <3>1. PICK s \in Segments : Get(head').head_hash = SegmentBreakPrevHash(StreamId, s)
        BY <2>3, SMTT(30) DEF ResumeAfterLoss, FreshSegments, ResumeHead, NewHead, Get, Some
      <3>2. Len(log) > 0
        BY <1>2, <2>3 DEF ResumeAfterLoss, IInv, ChainInv, IsSeq
      <3> QED
        BY <1>1, <1>2, <3>1, <3>2, SMTT(30) DEF HeadInv
    <2> QED
      BY <2>1, <2>2, <2>3, SMTT(30)
  <1> QED
    BY <1>4, <1>5 DEF IInv

\* Writing the oldest pending record to the log keeps the invariant: log and
\* pending records together are the same chain.
LEMMA PersistStep ==
    ASSUME IInv, PersistRecord, UNCHANGED <<lines, findings>>
    PROVE  IInv'
  <1>1. IsSeq(log) /\ IsSeq(pending) /\ pending # <<>> /\ head' = head
    BY DEF IInv, ChainInv, PersistRecord
  <1>2. /\ IsSeq(log') /\ IsSeq(pending')
        /\ ChainLen \in Nat /\ ChainLen' = ChainLen
        /\ \A i \in 1..ChainLen : ChainAt(i)' = ChainAt(i)
    BY <1>1, PersistKeepsChain
  <1>3. ChainInv' /\ LinesInv' /\ ProvenanceInv'
    BY <1>2, PrefixStep, SMTT(30)
  <1>4. HeadInv'
    <2>1. head # None
      BY <1>1 DEF IInv, HeadInv
    <2>2. ChainLen > 0 => ChainAt(ChainLen)' = ChainAt(ChainLen)
      BY <1>2
    <2> QED
      BY <1>1, <1>2, <2>1, <2>2 DEF IInv, HeadInv
  <1> QED
    BY <1>3, <1>4 DEF IInv

\* A crash, which loses the pending records and the head, keeps the invariant.
LEMMA CrashStep ==
    ASSUME IInv, Crash, UNCHANGED <<lines, findings>>
    PROVE  IInv'
  <1>1. IsSeq(log) /\ IsSeq(pending) /\ head' = None /\ pending' = <<>>
    BY DEF IInv, ChainInv, Crash
  <1>2. ChainInv' /\ LinesInv' /\ ProvenanceInv'
    BY <1>1, CrashCutsChain, PrefixStep
  <1>3. HeadInv'
    BY <1>1 DEF HeadInv
  <1> QED
    BY <1>2, <1>3 DEF IInv

\* A record appended to the chain cannot be the one some line of the file was
\* linked to, unless that line is the recorder's own as well.
LEMMA AppendStep ==
    ASSUME IInv, AppendRecord, UNCHANGED <<lines, findings>>
    PROVE  IInv'
  <1>1. PICK draft \in Drafts :
           LET r == Finalized(Chained(Get(head), draft))
           IN  /\ pending' = Append(pending, r)
               /\ head' = Some(ResumeHead(r.record_hash, r.seq))
    BY SMTT(30) DEF AppendRecord
  <1> DEFINE r == Finalized(Chained(Get(head), draft))
  <1>2. log' = log /\ head # None /\ IsSeq(log) /\ IsSeq(pending)
    BY DEF AppendRecord, IInv, ChainInv
  <1>3. IsRecord(Chained(Get(head), draft))
        /\ Chained(Get(head), draft).prev_hash = Get(head).head_hash
    <2>1. IsRecord(draft)
      BY DEF Drafts, IsRecord, Record
    <2> QED
      BY <2>1, ChainedIsRecord
  <1>4. Hashed(r) /\ r.prev_hash = Get(head).head_hash
    BY <1>3, FinalizedHashed
  <1> HIDE DEF r
  <1>5. pending' = Append(pending, r)
    BY <1>1 DEF r
  <1>6. IsSeq(pending') /\ ChainLen \in Nat /\ ChainLen' = ChainLen + 1
    BY <1>2, <1>5, AppendExtendsChain
  <1>7. \A i \in 1..ChainLen : ChainAt(i)' = ChainAt(i)
    BY <1>2, <1>5, AppendExtendsChain
  <1>8. \A i : i = ChainLen + 1 => ChainAt(i)' = r
    BY <1>2, <1>5, AppendExtendsChain
  <1>9. \/ ChainLen = 0 /\ r.prev_hash = GenesisPrevHash(StreamId)
        \/ ChainLen > 0 /\ r.prev_hash = ChainAt(ChainLen).record_hash
        \/ /\ ChainLen > 0
           /\ \E s \in Segments : r.prev_hash = SegmentBreakPrevHash(StreamId, s)
    BY <1>2, <1>4, SMTT(30) DEF IInv, HeadInv
  <1>10. ChainInv'
    <2>1. \A i \in 1..ChainLen' : Hashed(ChainAt(i)')
      BY <1>4, <1>6, <1>7, <1>8, SMTT(30) DEF IInv, ChainInv
    <2>2. ChainAt(1)'.prev_hash = GenesisPrevHash(StreamId)
      BY <1>6, <1>7, <1>8, <1>9 DEF IInv, ChainInv
    <2>3. ASSUME NEW i \in 2..ChainLen'
          PROVE  \/ ChainAt(i)'.prev_hash = ChainAt(i - 1)'.record_hash
                 \/ \E s \in Segments :
                       ChainAt(i)'.prev_hash = SegmentBreakPrevHash(StreamId, s)
      <3>1. CASE i <= ChainLen
        BY <3>1, <1>6, <1>7 DEF IInv, ChainInv
      <3>2. CASE i = ChainLen + 1
        <4>1. i - 1 = ChainLen /\ i - 1 \in 1..ChainLen /\ ChainAt(i)' = r
          BY <3>2, <1>6, <1>8
        <4>2. ChainAt(i - 1)' = ChainAt(ChainLen)
          BY <4>1, <1>7
        <4> QED
          BY <4>1, <4>2, <1>9
      <3> QED
        BY <3>1, <3>2, <1>6
    <2> QED
      BY <1>2, <1>6, <2>1, <2>2, <2>3, SMTT(30) DEF ChainInv
  <1>11. HeadInv'
    <2>1. head' # None /\ Get(head').head_hash = r.record_hash
      BY <1>1 DEF r, Get, Some, None, ResumeHead, NewHead
    <2> QED
      BY <2>1, <1>6, <1>8 DEF HeadInv
  <1>12. LinesInv'
    BY SMTT(30) DEF IInv, LinesInv
  <1>13. ProvenanceInv'
    <2> SUFFICES ASSUME "record_hash_mismatch" \notin findings,
                        NEW e \in 1..Len(lines), NEW j \in 1..ChainLen',
                        lines[e].record_hash = ChainAt(j)'.record_hash,
                        NEW d \in 0..(e - 1),
                        \A k \in (e - d + 1)..e : lines[k].prev_hash = lines[k - 1].record_hash
                 PROVE  d < j /\ lines[e - d] = ChainAt(j - d)'
      BY DEF ProvenanceInv
    <2>1. Len(lines) \in Nat /\ \A i \in 1..Len(lines) : Hashed(lines[i])
      BY AppendFacts DEF IInv, LinesInv
    <2>2. CASE j <= ChainLen
      <3>1. j \in 1..ChainLen /\ ChainAt(j)' = ChainAt(j)
        BY <2>2, <1>6, <1>7
      <3>2. lines[e].record_hash = ChainAt(j).record_hash
        BY <3>1
      <3>3. ProvenanceInv
        BY DEF IInv
      <3>4. d < j /\ lines[e - d] = ChainAt(j - d)
        BY <3>1, <3>2, <3>3, SMTT(30) DEF ProvenanceInv
      <3>5. j - d \in 1..ChainLen
        BY <2>1, <2>2, <3>1, <3>4, <1>6
      <3> QED
        BY <3>4, <3>5, <1>7
    <2>3. CASE j = ChainLen + 1
      <3>1. lines[e] = r
        BY <2>1, <2>3, <1>4, <1>8, HashInjective
      <3>2. CASE d = 0
        <4>1. e - d = e /\ j - d = j /\ d < j
          BY <3>2, <2>1, <2>3, <1>6
        <4>2. ChainAt(j - d)' = r
          BY <4>1, <2>3, <1>8
        <4> QED
          BY <4>1, <4>2, <3>1
      <3>3. CASE d > 0
        <4>1. e - 1 \in 1..Len(lines) /\ d - 1 \in 0..(e - 1 - 1) /\ e \in (e - d + 1)..e
          BY <3>3, <2>1, SMTT(30)
        <4>2. r.prev_hash = lines[e - 1].record_hash
          BY <3>1, <4>1, SMTT(30)
        <4>3. r.prev_hash = ComputeHash(lines[e - 1])
          BY <4>1, <4>2, <2>1 DEF Hashed
        <4>4. ChainLen > 0 /\ r.prev_hash = ChainAt(ChainLen).record_hash
          BY <4>3, <1>9, HashNotSentinel
        <4>5. \A k \in (e - 1 - (d - 1) + 1)..(e - 1) :
                 lines[k].prev_hash = lines[k - 1].record_hash
          <5> TAKE k \in (e - 1 - (d - 1) + 1)..(e - 1)
          <5>1. k \in (e - d + 1)..e
            BY <3>3, <2>1
          <5> QED
            BY <5>1, SMTT(30)
        <4>6. d - 1 < ChainLen /\ lines[e - 1 - (d - 1)] = ChainAt(ChainLen - (d - 1))
          <5>1. ChainLen \in 1..ChainLen
            BY <4>4, <1>6
          <5>2. lines[e - 1].record_hash = ChainAt(ChainLen).record_hash
            BY <4>2, <4>4
          <5> QED
            BY <4>1, <4>5, <5>1, <5>2, Zenon DEF IInv, ProvenanceInv
        <4>7. /\ e - 1 - (d - 1) = e - d
              /\ ChainLen - (d - 1) = j - d
              /\ j - d \in 1..ChainLen
          BY <4>6, <2>1, <2>3, <3>3, <1>6, SMTT(30)
        <4>8. lines[e - d] = ChainAt(j - d)
          BY <4>6, <4>7
        <4> QED
          BY <4>7, <4>8, <1>7, <2>3, <1>6
      <3> QED
        BY <3>2, <3>3
    <2> QED
      BY <2>2, <2>3, <1>6
  <1> QED
    BY <1>10, <1>11, <1>12, <1>13 DEF IInv

\* A line read: its stored digest either is no digest of the chain, or makes it
\* the chain's own record, and its prev_hash says the same of the line before.
LEMMA ReadStep ==
    ASSUME IInv, ReadUnvouched
    PROVE  IInv'
  <1>1. PICK r : /\ IsRecord(r)
                 /\ lines' = Append(lines, r)
                 /\ findings' = findings \cup RecordFindings(r)
    <2>1. PICK stream \in Streams, s \in Segments, seq \in Seqs, wall \in Walls,
               mono \in Monos, type \in RecordTypes, content \in Contents :
             \E prevHash \in PrevHashes(stream, s) \cup LogHashes :
                LET draft == Record(stream, s, seq, wall, mono, type, content, prevHash, None)
                IN  \E hash \in {ComputeHash(draft)} \cup LogHashes \cup OtherHashes :
                       ReadRecord([draft EXCEPT !.record_hash = hash])
      BY DEF ReadUnvouched
    <2>2. PICK prevHash \in PrevHashes(stream, s) \cup LogHashes :
             LET draft == Record(stream, s, seq, wall, mono, type, content, prevHash, None)
             IN  \E hash \in {ComputeHash(draft)} \cup LogHashes \cup OtherHashes :
                    ReadRecord([draft EXCEPT !.record_hash = hash])
      BY <2>1
    <2> DEFINE draft == Record(stream, s, seq, wall, mono, type, content, prevHash, None)
    <2>3. PICK hash : ReadRecord([draft EXCEPT !.record_hash = hash])
      BY <2>2
    <2>4. IsRecord([draft EXCEPT !.record_hash = hash])
      BY DEF IsRecord, Record
    <2> HIDE DEF draft
    <2> QED
      BY <2>3, <2>4, Zenon DEF ReadRecord, VerifyNext
  <1>2. head' = head /\ log' = log /\ pending' = pending
    BY DEF ReadUnvouched, recorderVars
  <1>3. ChainLen \in Nat /\ ChainLen' = ChainLen /\ \A i : ChainAt(i)' = ChainAt(i)
    BY <1>2, ChainLenNat, SMTT(30) DEF ChainLen, ChainAt
  <1>4. ChainInv'
    BY <1>2, <1>3, SMTT(30) DEF IInv, ChainInv
  <1>5. HeadInv'
    BY <1>2, <1>3, SMTT(30) DEF IInv, HeadInv, ChainLen, ChainAt
  <1>6. /\ IsSeq(lines') /\ Len(lines) \in Nat
        /\ Len(lines') = Len(lines) + 1
        /\ \A i \in 1..Len(lines) : lines'[i] = lines[i]
        /\ lines'[Len(lines) + 1] = r
    BY <1>1, AppendFacts DEF IInv, LinesInv
  <1>7. ASSUME "record_hash_mismatch" \notin findings'
        PROVE  /\ "record_hash_mismatch" \notin findings
               /\ \A i \in 1..Len(lines') : Hashed(lines'[i])
    <2>1. "record_hash_mismatch" \notin findings /\ ~RecordHashMismatch(r)
      BY <1>1, <1>7, Zenon DEF RecordFindings
    <2>2. Hashed(r)
      BY <1>1, <2>1 DEF Hashed, RecordHashMismatch
    <2> QED
      BY <1>6, <2>1, <2>2 DEF IInv, LinesInv
  <1>8. LinesInv'
    BY <1>6, <1>7 DEF LinesInv
  <1>9. ProvenanceInv'
    <2> SUFFICES ASSUME "record_hash_mismatch" \notin findings',
                        NEW e \in 1..Len(lines'), NEW j \in 1..ChainLen,
                        lines'[e].record_hash = ChainAt(j).record_hash,
                        NEW d \in 0..(e - 1),
                        \A k \in (e - d + 1)..e : lines'[k].prev_hash = lines'[k - 1].record_hash
                 PROVE  d < j /\ lines'[e - d] = ChainAt(j - d)
      BY <1>3, SMTT(30) DEF ProvenanceInv
    <2>1. /\ "record_hash_mismatch" \notin findings
          /\ \A i \in 1..Len(lines') : Hashed(lines'[i])
      BY <1>7
    <2>2. ASSUME NEW e0 \in 1..Len(lines), NEW j0 \in 1..ChainLen, NEW d0 \in 0..(e0 - 1),
                 lines'[e0].record_hash = ChainAt(j0).record_hash,
                 \A k \in (e0 - d0 + 1)..e0 : lines'[k].prev_hash = lines'[k - 1].record_hash
          PROVE  d0 < j0 /\ lines'[e0 - d0] = ChainAt(j0 - d0)
      <3>0. e0 - d0 \in 1..Len(lines)
        BY <1>6
      <3>1. lines'[e0] = lines[e0] /\ lines'[e0 - d0] = lines[e0 - d0]
        BY <1>6, <3>0
      <3>2. \A k \in (e0 - d0 + 1)..e0 : lines[k].prev_hash = lines[k - 1].record_hash
        <4> TAKE k \in (e0 - d0 + 1)..e0
        <4>1. k \in 1..Len(lines) /\ k - 1 \in 1..Len(lines)
          BY <1>6
        <4> QED
          BY <2>2, <4>1, <1>6, SMTT(30)
      <3> QED
        BY <2>1, <2>2, <3>1, <3>2 DEF IInv, ProvenanceInv
    <2>3. CASE e <= Len(lines)
      <3>1. e \in 1..Len(lines)
        BY <2>3, <1>6
      <3> QED
        BY <3>1, <2>2
    <2>4. CASE e = Len(lines) + 1
      <3>1. lines'[e] = ChainAt(j)
        BY <2>1, <1>3, HashInjective DEF IInv, ChainInv
      <3>2. CASE d = 0
        <4>1. e - d = e /\ j - d = j /\ d < j
          BY <3>2, <1>3, <1>6
        <4> QED
          BY <4>1, <3>1
      <3>3. CASE d > 0
        <4>1. e - 1 \in 1..Len(lines) /\ d - 1 \in 0..(e - 1 - 1) /\ e \in (e - d + 1)..e
          BY <3>3, <2>4, <1>6
        <4>2. ChainAt(j).prev_hash = lines'[e - 1].record_hash
          <5>1. lines'[e].prev_hash = lines'[e - 1].record_hash
            BY <4>1, Zenon
          <5> QED
            BY <3>1, <5>1, Zenon
        <4>3. ChainAt(j).prev_hash = ComputeHash(lines'[e - 1])
          BY <4>1, <4>2, <2>1, <1>6, SMTT(30) DEF Hashed
        <4>4. j # 1
          BY <4>3, <1>3, HashNotSentinel DEF IInv, ChainInv
        <4>5. j \in 2..ChainLen /\ j - 1 \in 1..ChainLen
          BY <4>4, <1>3, SMTT(30)
        <4>6. lines'[e - 1].record_hash = ChainAt(j - 1).record_hash
          BY <4>2, <4>3, <4>5, HashNotSentinel DEF IInv, ChainInv
        <4>7. \A k \in (e - 1 - (d - 1) + 1)..(e - 1) :
                 lines'[k].prev_hash = lines'[k - 1].record_hash
          <5> TAKE k \in (e - 1 - (d - 1) + 1)..(e - 1)
          <5>1. k \in (e - d + 1)..e
            BY <3>3, <2>4, <1>6
          <5> QED
            BY <5>1
        <4>8. d - 1 < j - 1 /\ lines'[e - 1 - (d - 1)] = ChainAt(j - 1 - (d - 1))
          BY <4>1, <4>5, <4>6, <4>7, <2>2, Zenon
        <4>9. e - 1 - (d - 1) = e - d /\ j - 1 - (d - 1) = j - d /\ (d - 1 < j - 1 => d < j)
          BY <1>3, <1>6
        <4> QED
          BY <4>8, <4>9
      <3> QED
        BY <3>2, <3>3, SMTT(30)
    <2> QED
      BY <2>3, <2>4, <1>6
  <1> QED
    BY <1>4, <1>5, <1>8, <1>9 DEF IInv

-----------------------------------------------------------------------------
\* The strengthened invariant is enough: a clean file has no hash finding, and
\* the durable log is the beginning of the chain.
LEMMA ProvenanceImpliesEvidence ==
    ASSUME IInv
    PROVE  TamperEvidence
  <1> SUFFICES ASSUME Clean, lines # <<>>, NEW j \in DOMAIN log,
                      lines[Len(lines)].record_hash = log[j].record_hash,
                      NEW d \in 0..(Len(lines) - 1),
                      TiedToEnd(Len(lines) - d)
               PROVE  d < j /\ lines[Len(lines) - d] = log[j - d]
    BY DEF TamperEvidence
  <1>1. /\ Len(lines) \in Nat /\ Len(log) \in Nat /\ Len(pending) \in Nat
        /\ Len(lines) \in 1..Len(lines)
    BY ChainLenNat, AppendFacts DEF IInv, LinesInv, IsSeq
  <1>2. j \in 1..Len(log) /\ j \in 1..ChainLen
    <2>1. DOMAIN log = 1..Len(log)
      BY DEF IInv, ChainInv, IsSeq
    <2> QED
      BY <2>1, <1>1 DEF ChainLen
  <1>3. \A i \in 1..Len(log) : ChainAt(i) = log[i]
    BY <1>1 DEF ChainAt
  <1>4. "record_hash_mismatch" \notin findings
    BY DEF Clean, Severity
  <1>5. \A k \in (Len(lines) - d + 1)..Len(lines) :
           lines[k].prev_hash = lines[k - 1].record_hash
    BY DEF TiedToEnd
  <1>6. d < j /\ lines[Len(lines) - d] = ChainAt(j - d)
    <2>1. lines[Len(lines)].record_hash = ChainAt(j).record_hash
      BY <1>2, <1>3, Zenon
    <2> QED
      BY <1>1, <1>2, <1>4, <1>5, <2>1, Zenon DEF IInv, ProvenanceInv
  <1>7. j - d \in 1..Len(log)
    BY <1>1, <1>2, <1>6, SMTT(30)
  <1> QED
    BY <1>3, <1>6, <1>7

\* The invariant holds before anything is written or read.
LEMMA InitProvenance ==
    ASSUME SystemInit
    PROVE  IInv
  <1>1. log = <<>> /\ pending = <<>> /\ lines = <<>> /\ head = None
    BY DEF SystemInit, RecorderInit, VerifierInit
  <1>2. IsSeq(log) /\ IsSeq(pending) /\ IsSeq(lines) /\ ChainLen = 0 /\ Len(lines) = 0
    BY <1>1 DEF IsSeq, ChainLen
  <1> QED
    BY <1>1, <1>2 DEF IInv, ChainInv, HeadInv, LinesInv, ProvenanceInv

\* A step that changes neither the chain nor the file keeps the invariant.
LEMMA StutterStep ==
    ASSUME IInv, UNCHANGED <<head, log, pending, lines, findings>>
    PROVE  IInv'
  <1>1. ChainLen \in Nat /\ ChainLen' = ChainLen
    BY ChainLenNat DEF ChainLen
  <1>2. \A i : ChainAt(i)' = ChainAt(i)
    BY DEF ChainAt
  <1>3. IsSeq(log') /\ IsSeq(pending')
    BY DEF IInv, ChainInv
  <1>4. ChainInv' /\ LinesInv' /\ ProvenanceInv'
    BY <1>1, <1>2, <1>3, PrefixStep, SMTT(30)
  <1>5. HeadInv'
    BY <1>1, <1>2 DEF IInv, HeadInv
  <1> QED
    BY <1>4, <1>5 DEF IInv

\* Every step of recorder, crash and verifier keeps the invariant.
LEMMA StepProvenance ==
    ASSUME StaleHeads = FALSE, IInv, [AnyNext]_systemVars
    PROVE  IInv'
  <1>1. CASE RecorderStep
    <2>1. UNCHANGED <<lines, findings>>
      BY <1>1 DEF RecorderStep, verifierVars
    <2>2. CASE StartStream \/ Resume \/ ResumeAfterLoss
      BY <2>1, <2>2, BootStep, Zenon
    <2>3. CASE AppendRecord
      BY <2>1, <2>3, AppendStep
    <2>4. CASE AppendRefused
      BY <2>1, <2>4, StutterStep DEF AppendRefused, recorderVars
    <2>5. CASE PersistRecord
      BY <2>1, <2>5, PersistStep
    <2>6. CASE Crash
      BY <2>1, <2>6, CrashStep
    <2> QED
      BY <1>1, <2>2, <2>3, <2>4, <2>5, <2>6 DEF RecorderStep, RecorderNext
  <1>2. CASE ReadUnvouched
    BY <1>2, ReadStep
  <1>3. CASE UNCHANGED systemVars
    BY <1>3, StutterStep DEF systemVars, recorderVars, verifierVars
  <1> QED
    BY <1>1, <1>2, <1>3 DEF AnyNext

\* Tamper evidence, for any number of records, lines, boots and crashes and any
\* bundle: when a stream that verify_next finds no Error in ends in a digest the
\* recorder produced, its records are the recorder's own back to the last
\* segment break or to the start of the file.  The assumption excludes the
\* rolled-back recorder, whose two histories share a sequence number.
THEOREM TamperEvident ==
    ASSUME StaleHeads = FALSE
    PROVE  AnySpec => []TamperEvidence
  <1>1. SystemInit => IInv
    BY InitProvenance
  <1>2. IInv /\ [AnyNext]_systemVars => IInv'
    BY StepProvenance, Zenon
  <1>3. IInv => TamperEvidence
    BY ProvenanceImpliesEvidence
  <1> QED
    BY <1>1, <1>2, <1>3, PTL DEF AnySpec

-----------------------------------------------------------------------------
(***************************************************************************)
(* The recorder implements the append-only log of module EvidenceLog, for  *)
(* any number of records, boots and crashes, when no boot starts from an   *)
(* outdated head.                                                          *)
(*                                                                         *)
(* The log alone is not inductive: what PersistRecord writes was built     *)
(* earlier, by AppendRecord, from a head that a boot may have set earlier  *)
(* still.  PlacesInv says of the whole chain, pending records included,    *)
(* what EvidenceLog says of the log; ReadyInv, that the head fits the      *)
(* chain it will extend.                                                   *)
(***************************************************************************)
\* A link to number k of the chain, or a break into a segment that is new there.
LinkFits(prevHash, s, k) ==
    IF k = 0 THEN prevHash = GenesisPrevHash(StreamId)
    ELSE \/ prevHash = ChainAt(k).record_hash
         \/ /\ prevHash = SegmentBreakPrevHash(StreamId, s)
            /\ \A j \in 1..k : ChainAt(j).segment_id # s

\* The record fits as number k + 1 of the chain.
FitsAt(r, k) ==
    /\ r.stream_id = StreamId
    /\ r.seq = k
    /\ r.record_hash = ComputeHash(r)
    /\ LinkFits(r.prev_hash, r.segment_id, k)

PlacesInv ==
    /\ IsSeq(log)
    /\ IsSeq(pending)
    /\ \A i \in 1..ChainLen : FitsAt(ChainAt(i), i - 1)

ReadyInv ==
    /\ head = None => pending = <<>>
    /\ head # None =>
          /\ Get(head).stream_id = StreamId
          /\ NextSeq(Get(head)) = ChainLen
          /\ LinkFits(Get(head).head_hash, Get(segment), ChainLen)

LInv == PlacesInv /\ ReadyInv

-----------------------------------------------------------------------------
\* The lengths behind the chain.
LEMMA Lengths ==
    ASSUME PlacesInv
    PROVE  Len(log) \in Nat /\ Len(pending) \in Nat /\ ChainLen \in Nat
  BY AppendFacts DEF PlacesInv, ChainLen

\* A step that keeps a prefix of the chain keeps its places.
LEMMA PlacesKept ==
    ASSUME PlacesInv, IsSeq(log)', IsSeq(pending)',
           ChainLen' \in Nat, ChainLen' <= ChainLen,
           \A i \in 1..ChainLen' : ChainAt(i)' = ChainAt(i)
    PROVE  PlacesInv'
  <1> SUFFICES ASSUME NEW i \in 1..ChainLen'
               PROVE  FitsAt(ChainAt(i), i - 1)'
    BY Zenon DEF PlacesInv
  <1>1. i \in 1..ChainLen /\ i - 1 \in Nat /\ ChainAt(i)' = ChainAt(i)
    BY Lengths
  <1>2. FitsAt(ChainAt(i), i - 1)
    BY <1>1, Zenon DEF PlacesInv
  <1>3. \A j \in 1..(i - 1) : ChainAt(j)' = ChainAt(j)
    BY SMTT(30)
  <1>4. LinkFits(ChainAt(i).prev_hash, ChainAt(i).segment_id, i - 1)'
    <2>1. LinkFits(ChainAt(i).prev_hash, ChainAt(i).segment_id, i - 1)
      BY <1>2, Zenon DEF FitsAt
    <2> QED
      BY <1>1, <1>3, <2>1 DEF LinkFits, GenesisPrevHash, SegmentBreakPrevHash
  <1> QED
    BY <1>1, <1>2, <1>4, Zenon DEF FitsAt, ComputeHash

\* What append() makes of a draft.
LEMMA ChainedFields ==
    ASSUME NEW h, NEW draft \in Drafts
    PROVE  LET r == Finalized(Chained(h, draft))
           IN  /\ r.stream_id = draft.stream_id
               /\ r.segment_id = Get(segment)
               /\ r.seq = NextSeq(h)
               /\ r.prev_hash = h.head_hash
               /\ Hashed(r)
               /\ r.ts_wall = draft.ts_wall /\ draft.ts_wall \in Walls
               /\ r.ts_mono_ns = draft.ts_mono_ns /\ draft.ts_mono_ns \in Monos
               /\ r.record_type = draft.record_type
               /\ draft.segment_id = Get(segment)
  <1>1. PICK stream \in Streams, wall \in Walls, mono \in Monos, type \in RecordTypes,
             content \in Contents :
           draft = Record(stream, Get(segment), 0, wall, mono, type, content, None, None)
    BY DEF Drafts
  <1> DEFINE chained == Record(stream, Get(segment), NextSeq(h), wall, mono, type, content,
                               h.head_hash, None)
  <1>2. Chained(h, draft) = chained
    <2> DEFINE numbered == Record(stream, Get(segment), NextSeq(h), wall, mono, type, content,
                                  None, None)
    <2>1. [draft EXCEPT !.seq = NextSeq(h)] = numbered
      BY <1>1 DEF Record
    <2>2. [numbered EXCEPT !.prev_hash = h.head_hash] = chained
      BY DEF Record
    <2>3. Chained(h, draft) = [[draft EXCEPT !.seq = NextSeq(h)] EXCEPT !.prev_hash = h.head_hash]
      BY Zenon DEF Chained
    <2> HIDE DEF numbered, chained
    <2> QED
      BY <2>1, <2>2, <2>3, Zenon
  <1>3. IsRecord(chained)
    BY Zenon DEF IsRecord, Record
  <1>4. /\ Finalized(chained).stream_id = stream
        /\ Finalized(chained).segment_id = Get(segment)
        /\ Finalized(chained).seq = NextSeq(h)
        /\ Finalized(chained).prev_hash = h.head_hash
        /\ Finalized(chained).ts_wall = wall
        /\ Finalized(chained).ts_mono_ns = mono
        /\ Finalized(chained).record_type = type
    BY Zenon DEF Finalized, Record
  <1>5. Hashed(Finalized(chained))
    BY <1>3, FinalizedHashed, Zenon
  <1>6. /\ draft.stream_id = stream /\ draft.segment_id = Get(segment)
        /\ draft.ts_wall = wall /\ draft.ts_mono_ns = mono /\ draft.record_type = type
    BY <1>1, Zenon DEF Record
  <1> QED
    BY <1>2, <1>4, <1>5, <1>6, Zenon

-----------------------------------------------------------------------------
(* One step of the recorder. *)

\* A boot sets a head that fits the chain it finds.
LEMMA BootReady ==
    ASSUME LInv, StaleHeads = FALSE, StartStream \/ Resume \/ ResumeAfterLoss
    PROVE  LInv'
  <1>1. /\ pending = <<>>
        /\ log' = log /\ pending' = pending
        /\ head' # None
    <2>1. head = None /\ log' = log /\ pending' = pending /\ head' # None
      <3>1. CASE StartStream
        BY <3>1, Zenon DEF StartStream, None, Some
      <3>2. CASE Resume
        BY <3>2 DEF Resume, None, Some
      <3>3. CASE ResumeAfterLoss
        BY <3>3 DEF ResumeAfterLoss, None, Some
      <3> QED
        BY <3>1, <3>2, <3>3, Zenon
    <2> QED
      BY <2>1, Zenon DEF LInv, ReadyInv
  <1>2. /\ IsSeq(log) /\ IsSeq(pending) /\ Len(log) \in Nat
        /\ ChainLen = Len(log) /\ ChainLen' = ChainLen
        /\ DOMAIN log = 1..Len(log)
    BY <1>1, Lengths DEF ChainLen, LInv, PlacesInv, IsSeq
  <1>3. /\ \A i : ChainAt(i)' = ChainAt(i)
        /\ \A i \in 1..Len(log) : ChainAt(i) = log[i]
    BY <1>1 DEF ChainAt
  <1>4. PlacesInv'
    BY <1>1, <1>2, <1>3, PlacesKept DEF LInv, PlacesInv
  <1>5. ReadyInv'
    <2>1. CASE StartStream
      <3>1. log = <<>> /\ Get(head') = Genesis
        BY <2>1, Zenon DEF StartStream, Get, Some
      <3> QED
        BY <1>1, <1>2, <3>1 DEF ReadyInv, Genesis, NewHead, NextSeq, None, LinkFits
    <2>2. CASE Resume
      <3>1. PICK k \in DOMAIN log :
               /\ k = Len(log)
               /\ Get(head') = ResumeHead(log[k].record_hash, log[k].seq)
        BY <2>2 DEF Resume, Get, Some
      <3>2. k \in 1..ChainLen /\ ChainLen = k /\ ChainAt(k) = log[k] /\ log[k].seq = k - 1
        BY <1>2, <1>3, <3>1, Zenon DEF LInv, PlacesInv, FitsAt
      <3>3. NextSeq(Get(head')) = ChainLen
        BY <1>2, <3>1, <3>2, HeadFields
      <3>4. Get(head').stream_id = StreamId /\ Get(head').head_hash = ChainAt(ChainLen)'.record_hash
        <4>1. LET h == ResumeHead(log[k].record_hash, log[k].seq)
              IN  h.stream_id = StreamId /\ h.head_hash = log[k].record_hash
          BY HeadFields, Zenon
        <4>2. ChainAt(ChainLen)' = log[k]
          BY <1>2, <1>3, <3>2, Zenon
        <4> QED
          BY <3>1, <4>1, <4>2, Zenon
      <3>5. ChainLen' = ChainLen /\ ChainLen # 0
        BY <1>2, <3>2
      <3>6. LinkFits(Get(head).head_hash, Get(segment), ChainLen)'
        BY <3>4, <3>5, Zenon DEF LinkFits
      <3> QED
        BY <1>1, <3>3, <3>4, <3>5, <3>6, Zenon DEF ReadyInv
    <2>3. CASE ResumeAfterLoss
      <3>1. PICK s \in FreshSegments :
               /\ Get(segment') = s
               /\ Get(head') = ResumeHead(SegmentBreakPrevHash(StreamId, s), log[Len(log)].seq)
        <4>1. \A x : Get(Some(x)) = x
          BY DEF Get, Some
        <4> QED
          BY <2>3, <4>1, Zenon DEF ResumeAfterLoss
      <3>2. Len(log) \in 1..ChainLen /\ log[Len(log)].seq = Len(log) - 1
        <4>1. Len(log) > 0
          BY <1>2, <2>3, SMTT(30) DEF ResumeAfterLoss, IsSeq
        <4> QED
          <5>1. Len(log) \in 1..ChainLen /\ Len(log) \in 1..Len(log)
            BY <4>1, <1>2
          <5> QED
            BY <5>1, <1>3, Zenon DEF LInv, PlacesInv, FitsAt
      <3>3. NextSeq(Get(head')) = ChainLen
        BY <1>2, <3>1, <3>2, HeadFields
      <3>4. Get(head').stream_id = StreamId
            /\ Get(head').head_hash = SegmentBreakPrevHash(StreamId, s)
        <4>1. LET h == ResumeHead(SegmentBreakPrevHash(StreamId, s), log[Len(log)].seq)
              IN  h.stream_id = StreamId /\ h.head_hash = SegmentBreakPrevHash(StreamId, s)
          BY HeadFields, Zenon
        <4> QED
          BY <3>1, <4>1, Zenon
      <3>5. \A j \in 1..ChainLen : ChainAt(j)'.segment_id # s
        BY <1>2, <1>3, <3>1, Zenon DEF FreshSegments
      <3>6. ChainLen' = ChainLen /\ ChainLen # 0
        BY <1>2, <3>2
      <3>7. LinkFits(Get(head).head_hash, Get(segment), ChainLen)'
        BY <3>1, <3>4, <3>5, <3>6, Zenon DEF LinkFits
      <3> QED
        BY <1>1, <3>3, <3>4, <3>6, <3>7, Zenon DEF ReadyInv
    <2> QED
      BY <2>1, <2>2, <2>3, Zenon
  <1> QED
    BY <1>4, <1>5, Zenon DEF LInv

\* A crash leaves the durable part of the chain.
LEMMA CrashKeeps ==
    ASSUME LInv, Crash
    PROVE  LInv'
  <1>1. IsSeq(log) /\ IsSeq(pending) /\ head' = None /\ pending' = <<>>
    BY Zenon DEF LInv, PlacesInv, Crash
  <1>2. PlacesInv'
    BY <1>1, CrashCutsChain, PlacesKept, Zenon DEF LInv
  <1> QED
    BY <1>1, <1>2, Zenon DEF LInv, ReadyInv

\* append() extends the chain by a record that fits, and leaves a head that
\* fits that record.
LEMMA AppendFits ==
    ASSUME LInv, AppendRecord
    PROVE  LInv'
  <1>1. PICK draft \in Drafts :
           /\ Accepts(Get(head), draft)
           /\ LET r == Finalized(Chained(Get(head), draft))
              IN  /\ pending' = Append(pending, r)
                  /\ head' = Some(ResumeHead(r.record_hash, r.seq))
    BY Zenon DEF AppendRecord
  <1> DEFINE r == Finalized(Chained(Get(head), draft))
  <1>2. log' = log /\ segment' = segment /\ head # None /\ IsSeq(log) /\ IsSeq(pending)
    BY Zenon DEF AppendRecord, LInv, PlacesInv
  <1>3. /\ r.stream_id = draft.stream_id /\ r.segment_id = Get(segment)
        /\ r.seq = NextSeq(Get(head)) /\ r.prev_hash = Get(head).head_hash
        /\ r.record_hash = ComputeHash(r)
    BY ChainedFields, Zenon DEF Hashed
  <1>4. /\ pending' = Append(pending, r)
        /\ head' = Some(ResumeHead(r.record_hash, r.seq))
        /\ draft.stream_id = Get(head).stream_id
    BY <1>1, Zenon DEF Accepts
  <1> HIDE DEF r
  <1>5. FitsAt(r, ChainLen)
    BY <1>2, <1>3, <1>4, Zenon DEF FitsAt, LInv, ReadyInv
  <1>6. IsSeq(pending')
    BY <1>2, <1>4, AppendExtendsChain, Zenon
  <1>7. ChainLen \in Nat /\ ChainLen' = ChainLen + 1
    BY <1>2, <1>4, AppendExtendsChain, Zenon
  <1>8. \A i \in 1..ChainLen : ChainAt(i)' = ChainAt(i)
    BY <1>2, <1>4, AppendExtendsChain, Zenon
  <1>9. \A i : i = ChainLen + 1 => ChainAt(i)' = r
    BY <1>2, <1>4, AppendExtendsChain, Zenon
  <1>10. PlacesInv'
    <2> SUFFICES ASSUME NEW i \in 1..ChainLen'
                 PROVE  FitsAt(ChainAt(i), i - 1)'
      BY <1>2, <1>6, Zenon DEF PlacesInv
    <2>1. ASSUME NEW q, NEW k \in 0..ChainLen, FitsAt(q, k), ChainAt(k + 1)' = q
          PROVE  FitsAt(ChainAt(k + 1), k)'
      <3>1. k \in 0..ChainLen /\ \A j \in 1..k : ChainAt(j)' = ChainAt(j)
        BY <1>7, <1>8
      <3>2. LinkFits(q.prev_hash, q.segment_id, k)
        BY <2>1, Zenon DEF FitsAt
      <3>3. LinkFits(ChainAt(k + 1).prev_hash, ChainAt(k + 1).segment_id, k)'
        BY <2>1, <3>1, <3>2, <1>7 DEF LinkFits, GenesisPrevHash, SegmentBreakPrevHash
      <3> QED
        BY <2>1, <3>3, Zenon DEF FitsAt, ComputeHash
    <2>2. CASE i <= ChainLen
      <3>1. i \in 1..ChainLen /\ i - 1 \in 0..ChainLen /\ i - 1 + 1 = i /\ ChainAt(i)' = ChainAt(i)
        BY <2>2, <1>7, <1>8
      <3>2. FitsAt(ChainAt(i), i - 1)
        BY <3>1, Zenon DEF LInv, PlacesInv
      <3> QED
        BY <3>1, <3>2, <2>1, Zenon
    <2>3. CASE i = ChainLen + 1
      <3>1. i - 1 = ChainLen /\ i - 1 \in 0..ChainLen /\ i - 1 + 1 = i /\ ChainAt(i)' = r
        BY <2>3, <1>7, <1>9
      <3>2. FitsAt(r, i - 1)
        BY <3>1, <1>5, Zenon
      <3> QED
        BY <3>1, <3>2, <2>1, Zenon
    <2> QED
      BY <2>2, <2>3, <1>7
  <1>11. ReadyInv'
    <2>1. /\ head' # None
          /\ Get(head').stream_id = StreamId
          /\ Get(head').head_hash = r.record_hash
          /\ NextSeq(Get(head')) = r.seq + 1
      BY <1>4, Zenon DEF Get, Some, None, ResumeHead, NewHead, NextSeq
    <2>2. r.seq = ChainLen
      BY <1>5, Zenon DEF FitsAt
    <2>3. ChainAt(ChainLen)' = r
      BY <1>7, <1>9, Zenon
    <2> QED
      BY <1>7, <2>1, <2>2, <2>3 DEF ReadyInv, LinkFits
  <1> QED
    BY <1>10, <1>11, Zenon DEF LInv

\* PersistRecord leaves the chain as it is, and its durable part grows by the
\* record that fits there.
LEMMA PersistExtends ==
    ASSUME LInv, PersistRecord
    PROVE  LInv' /\ Evidence!Extend
  <1>1. /\ IsSeq(log) /\ IsSeq(pending) /\ pending # <<>>
        /\ log' = Append(log, Head(pending))
        /\ pending' = Tail(pending)
        /\ head' = head /\ segment' = segment
    BY Zenon DEF LInv, PlacesInv, PersistRecord
  <1>2. /\ IsSeq(log') /\ IsSeq(pending')
        /\ ChainLen \in Nat /\ ChainLen' = ChainLen
        /\ \A i \in 1..ChainLen : ChainAt(i)' = ChainAt(i)
        /\ Len(log) \in Nat /\ Len(log) < ChainLen
        /\ ChainAt(Len(log) + 1) = Head(pending)
    BY <1>1, PersistKeepsChain, Zenon
  <1>3. PlacesInv'
    BY <1>2, PlacesKept DEF LInv
  <1>4. ReadyInv'
    <2>1. head # None
      BY <1>1, Zenon DEF LInv, ReadyInv
    <2>2. LinkFits(Get(head).head_hash, Get(segment), ChainLen)
      BY <2>1, Zenon DEF LInv, ReadyInv
    <2>3. LinkFits(Get(head).head_hash, Get(segment), ChainLen)'
      BY <1>1, <1>2, <2>2 DEF LinkFits, GenesisPrevHash, SegmentBreakPrevHash
    <2> QED
      BY <1>1, <1>2, <2>1, <2>3, Zenon DEF LInv, ReadyInv
  <1>5. Evidence!Extend
    <2> DEFINE n == Len(log)
               q == Head(pending)
    <2>1. n + 1 \in 1..ChainLen /\ ChainAt(n + 1) = q /\ n + 1 - 1 = n
      BY <1>2
    <2>2. FitsAt(q, n)
      BY <2>1 DEF LInv, PlacesInv
    <2>3. \A k \in 1..n : ChainAt(k) = log[k]
      BY <1>2, SMTT(30) DEF ChainAt
    <2>4. Evidence!Linked(q, n)
      BY <2>2, <2>3, <1>2
         DEF FitsAt, LinkFits, Evidence!Linked, Evidence!SegmentsUpTo, GenesisPrevHash,
             SegmentBreakPrevHash, Evidence!GenesisPrevHash, Evidence!SegmentBreakPrevHash
    <2>5. Evidence!Follows(q)
      BY <2>2, <2>4, Zenon DEF FitsAt, Evidence!Follows, ComputeHash, Evidence!ComputeHash
    <2> QED
      BY <1>1, <1>2, <2>5 DEF Evidence!Extend
  <1> QED
    BY <1>3, <1>4, <1>5, Zenon DEF LInv

-----------------------------------------------------------------------------
\* Every step of recorder, crash and verifier keeps the invariant, and is a
\* step of the append-only log or leaves the log alone.
LEMMA StepExtends ==
    ASSUME StaleHeads = FALSE, LInv, [AnyNext]_systemVars
    PROVE  LInv' /\ [Evidence!Extend]_log
  <1>1. CASE UNCHANGED <<head, segment, log, pending>>
    <2>1. ChainLen' = ChainLen /\ \A i : ChainAt(i)' = ChainAt(i)
      BY <1>1, Zenon DEF ChainLen, ChainAt
    <2>2. PlacesInv'
      BY <1>1, <2>1, PlacesKept, Lengths DEF LInv, PlacesInv
    <2>3. ReadyInv'
      BY <1>1, <2>1, Zenon DEF LInv, ReadyInv, LinkFits
    <2> QED
      BY <1>1, <2>2, <2>3, Zenon DEF LInv
  <1>2. CASE StartStream \/ Resume \/ ResumeAfterLoss
    <2>1. log' = log
      BY <1>2, Zenon DEF StartStream, Resume, ResumeAfterLoss
    <2> QED
      BY <1>2, <2>1, BootReady, Zenon
  <1>3. CASE AppendRecord
    BY <1>3, AppendFits, Zenon DEF AppendRecord
  <1>4. CASE PersistRecord
    BY <1>4, PersistExtends, Zenon
  <1>5. CASE Crash
    BY <1>5, CrashKeeps, Zenon DEF Crash
  <1>6. CASE AppendRefused \/ ReadUnvouched \/ UNCHANGED systemVars
    BY <1>1, <1>6, Zenon DEF AppendRefused, ReadUnvouched, systemVars, recorderVars
  <1> QED
    BY <1>2, <1>3, <1>4, <1>5, <1>6, Zenon DEF AnyNext, RecorderStep, RecorderNext

\* The recorder implements the append-only log, for any number of records and
\* boots: whatever ChainHead is asked to append and whenever the recorder
\* crashes, the durable log grows one record at a time, each at the place its
\* sequence number says and linked to the one before, or opens a new segment
\* with a break.  A rolled-back head is excluded: it does repeat numbers.
THEOREM RecorderImplementsLog ==
    ASSUME StaleHeads = FALSE
    PROVE  AnySpec => KeepsEvidence
  <1>1. SystemInit => LInv /\ Evidence!LogInit
    <2> SUFFICES ASSUME SystemInit PROVE LInv /\ Evidence!LogInit
      BY Zenon
    <2>1. log = <<>> /\ pending = <<>> /\ head = None
      BY Zenon DEF SystemInit, RecorderInit
    <2>2. IsSeq(log) /\ IsSeq(pending) /\ ChainLen = 0
      BY <2>1 DEF IsSeq, ChainLen
    <2> QED
      BY <2>1, <2>2 DEF LInv, PlacesInv, ReadyInv, Evidence!LogInit
  <1>2. LInv /\ [AnyNext]_systemVars => LInv' /\ [Evidence!Extend]_log
    BY StepExtends, Zenon
  <1> QED
    BY <1>1, <1>2, PTL DEF AnySpec, KeepsEvidence, Evidence!LogSpec
-----------------------------------------------------------------------------
(* Exports of the log, boots from outdated heads included.                 *)
(*                                                                         *)
(* A rolled-back head makes the chain fork, so positions and sequence      *)
(* numbers no longer agree and LInv fails.  HistoryInv is what is left: a  *)
(* record follows some earlier record of the chain, or opens a segment,    *)
(* or is the first; and no two records share segment and number.           *)

\* What append() guarantees of a record on its own.
Recorded(r) ==
    /\ Hashed(r)
    /\ r.stream_id = StreamId
    /\ r.segment_id \in Segments
    /\ r.seq \in Nat
    /\ r.ts_wall \in Walls
    /\ ParseWall(r.ts_wall) # None
    /\ r.ts_mono_ns \in Nat

\* prev_hash, number and segment of a record after the first k of the chain.
TracesTo(prevHash, seq, s, k) ==
    \/ k = 0 /\ prevHash = GenesisPrevHash(StreamId) /\ seq = 0
    \/ \E m \in 1..k : prevHash = ChainAt(m).record_hash /\ seq = ChainAt(m).seq + 1
    \/ /\ k > 0
       /\ prevHash = SegmentBreakPrevHash(StreamId, s)
       /\ seq = ChainAt(k).seq + 1
       /\ \A j \in 1..k : ChainAt(j).segment_id # s

\* No record of the first k of the chain has the segment and a number from seq on.
FreshNumber(seq, s, k) ==
    \A j \in 1..k : ChainAt(j).segment_id = s => ChainAt(j).seq < seq

\* The clock discipline between neighbours.
InTime(p, r) ==
    /\ \/ r.record_type = "clock_anomaly"
       \/ Get(ParseWall(r.ts_wall)) + WALL_TOLERANCE_MS >= Get(ParseWall(p.ts_wall))
    /\ r.segment_id # p.segment_id \/ r.ts_mono_ns >= p.ts_mono_ns

\* The record stands as number k + 1 of the chain.
Continues(r, k) ==
    /\ Recorded(r)
    /\ TracesTo(r.prev_hash, r.seq, r.segment_id, k)
    /\ FreshNumber(r.seq, r.segment_id, k)
    /\ k > 0 => InTime(ChainAt(k), r)

HistoryInv ==
    /\ IsSeq(log)
    /\ IsSeq(pending)
    /\ \A i \in 1..ChainLen : Continues(ChainAt(i), i - 1)

ResumedInv ==
    /\ head = None => pending = <<>>
    /\ head # None =>
          /\ Get(head).stream_id = StreamId
          /\ Get(segment) \in Segments
          /\ NextSeq(Get(head)) \in Nat
          /\ TracesTo(Get(head).head_hash, NextSeq(Get(head)), Get(segment), ChainLen)
          /\ FreshNumber(NextSeq(Get(head)), Get(segment), ChainLen)

\* What stands after k records of the chain depends on those records only.
LEMMA ContinuesKept ==
    ASSUME NEW r, NEW k \in Nat, Continues(r, k),
           \A j \in 1..k : ChainAt(j)' = ChainAt(j),
           ChainAt(k + 1)' = r
    PROVE  Continues(ChainAt(k + 1), k)'
  <1>1. k > 0 => k \in 1..k
    BY SMTT(30)
  <1>2. TracesTo(ChainAt(k + 1).prev_hash, ChainAt(k + 1).seq, ChainAt(k + 1).segment_id, k)'
    BY DEF Continues, TracesTo, GenesisPrevHash, SegmentBreakPrevHash
  <1>3. FreshNumber(ChainAt(k + 1).seq, ChainAt(k + 1).segment_id, k)'
    BY Zenon DEF Continues, FreshNumber
  <1>4. k > 0 => InTime(ChainAt(k), ChainAt(k + 1))'
    BY <1>1, Zenon DEF Continues, InTime, ParseWall, Get
  <1>5. Recorded(ChainAt(k + 1))'
    BY Zenon DEF Continues, Recorded, Hashed, IsRecord, Record, ComputeHash, ParseWall, None
  <1> QED
    BY <1>2, <1>3, <1>4, <1>5, Zenon DEF Continues

\* The lengths behind the chain.
LEMMA HistoryLengths ==
    ASSUME HistoryInv
    PROVE  Len(log) \in Nat /\ Len(pending) \in Nat /\ ChainLen \in Nat
  BY AppendFacts DEF HistoryInv, ChainLen

\* A step that keeps a prefix of the chain keeps its history.
LEMMA HistoryKept ==
    ASSUME HistoryInv, IsSeq(log)', IsSeq(pending)',
           ChainLen' \in Nat, ChainLen' <= ChainLen,
           \A i \in 1..ChainLen' : ChainAt(i)' = ChainAt(i)
    PROVE  HistoryInv'
  <1> SUFFICES ASSUME NEW i \in 1..ChainLen'
               PROVE  Continues(ChainAt(i), i - 1)'
    BY Zenon DEF HistoryInv
  <1>1. /\ i \in 1..ChainLen /\ i - 1 \in Nat /\ i - 1 + 1 = i /\ ChainAt(i)' = ChainAt(i)
        /\ \A j \in 1..(i - 1) : ChainAt(j)' = ChainAt(j)
    BY HistoryLengths
  <1>2. Continues(ChainAt(i), i - 1)
    BY <1>1, Zenon DEF HistoryInv
  <1> QED
    BY <1>1, <1>2, ContinuesKept, Zenon

\* A boot, from whatever head it finds, will continue the chain it finds.
LEMMA BootResumes ==
    ASSUME HistoryInv, ResumedInv, StartStream \/ Resume \/ ResumeAfterLoss
    PROVE  HistoryInv' /\ ResumedInv'
  <1>1. /\ pending = <<>>
        /\ log' = log /\ pending' = pending
        /\ head' # None
        /\ \E s \in FreshSegments : segment' = Some(s)
    <2>1. /\ head = None /\ log' = log /\ pending' = pending /\ head' # None
          /\ \E s \in FreshSegments : segment' = Some(s)
      <3>1. CASE StartStream
        BY <3>1, Zenon DEF StartStream, None, Some
      <3>2. CASE Resume
        BY <3>2 DEF Resume, None, Some
      <3>3. CASE ResumeAfterLoss
        BY <3>3 DEF ResumeAfterLoss, None, Some
      <3> QED
        BY <3>1, <3>2, <3>3, Zenon
    <2> QED
      BY <2>1, Zenon DEF ResumedInv
  <1>2. /\ IsSeq(log) /\ IsSeq(pending) /\ Len(log) \in Nat
        /\ ChainLen = Len(log) /\ ChainLen' = ChainLen
        /\ DOMAIN log = 1..Len(log)
    BY <1>1, HistoryLengths DEF ChainLen, HistoryInv, IsSeq
  <1>3. /\ \A i : ChainAt(i)' = ChainAt(i)
        /\ \A i \in 1..Len(log) : ChainAt(i) = log[i]
    BY <1>1 DEF ChainAt
  <1>4. HistoryInv'
    BY <1>1, <1>2, <1>3, HistoryKept
  <1>5. \A i \in 1..Len(log) : log[i].seq \in Nat
    BY <1>2, <1>3, Zenon DEF HistoryInv, Continues, Recorded
  <1>6. PICK s \in FreshSegments : segment' = Some(s)
    BY <1>1, Zenon
  <1>7. Get(segment') = s /\ s \in Segments /\ \A j \in 1..ChainLen : ChainAt(j)'.segment_id # s
    BY <1>2, <1>3, <1>6, Zenon DEF FreshSegments, Get, Some
  <1>8. FreshNumber(NextSeq(Get(head)), Get(segment), ChainLen)'
    BY <1>2, <1>7, Zenon DEF FreshNumber
  <1>9. /\ Get(head').stream_id = StreamId
        /\ NextSeq(Get(head')) \in Nat
        /\ TracesTo(Get(head).head_hash, NextSeq(Get(head)), Get(segment), ChainLen)'
    <2>1. CASE StartStream
      <3>1. log = <<>> /\ Get(head') = Genesis
        BY <2>1, Zenon DEF StartStream, Get, Some
      <3>2. /\ Get(head').stream_id = StreamId
            /\ Get(head').head_hash = GenesisPrevHash(StreamId)
            /\ NextSeq(Get(head')) = 0
        BY <3>1, HeadFields, Zenon
      <3> QED
        BY <1>1, <1>2, <3>1, <3>2, Zenon DEF TracesTo, GenesisPrevHash
    <2>2. CASE Resume
      <3>1. PICK k \in DOMAIN log : Get(head') = ResumeHead(log[k].record_hash, log[k].seq)
        BY <2>2 DEF Resume, Get, Some
      <3>2. k \in 1..ChainLen /\ ChainAt(k)' = log[k] /\ log[k].seq \in Nat
        BY <1>2, <1>3, <1>5, Zenon
      <3>3. /\ Get(head').stream_id = StreamId
            /\ Get(head').head_hash = log[k].record_hash
            /\ NextSeq(Get(head')) = log[k].seq + 1
        <4>1. LET h == ResumeHead(log[k].record_hash, log[k].seq)
              IN  /\ h.stream_id = StreamId /\ h.head_hash = log[k].record_hash
                  /\ NextSeq(h) = log[k].seq + 1
          BY HeadFields, Zenon
        <4> QED
          BY <3>1, <4>1, Zenon
      <3> QED
        BY <1>2, <3>2, <3>3 DEF TracesTo
    <2>3. CASE ResumeAfterLoss
      <3>1. PICK f \in FreshSegments :
               /\ segment' = Some(f)
               /\ Get(head') = ResumeHead(SegmentBreakPrevHash(StreamId, f), log[Len(log)].seq)
        BY <2>3 DEF ResumeAfterLoss, Get, Some
      <3>2. f = s
        BY <3>1, <1>6 DEF Some
      <3>3. ChainLen > 0 /\ ChainLen \in 1..Len(log)
        BY <1>2, <2>3 DEF ResumeAfterLoss, IsSeq
      <3>4. ChainAt(ChainLen)' = log[Len(log)] /\ log[Len(log)].seq \in Nat
        BY <3>3, <1>2, <1>3, <1>5, Zenon
      <3>5. /\ Get(head').stream_id = StreamId
            /\ Get(head').head_hash = SegmentBreakPrevHash(StreamId, s)
            /\ NextSeq(Get(head')) = log[Len(log)].seq + 1
        BY <3>1, <3>2 DEF ResumeHead, NewHead, NextSeq, None, Some, Get
      <3> QED
        BY <1>2, <1>7, <3>3, <3>4, <3>5 DEF TracesTo, SegmentBreakPrevHash
    <2> QED
      BY <2>1, <2>2, <2>3, Zenon
  <1> QED
    BY <1>1, <1>4, <1>7, <1>8, <1>9, Zenon DEF ResumedInv

\* append() continues the chain, and its head will continue it further.
LEMMA AppendContinues ==
    ASSUME HistoryInv, ResumedInv, AppendRecord
    PROVE  HistoryInv' /\ ResumedInv'
  <1>1. PICK draft \in Drafts :
           /\ KeepsTime(draft)
           /\ Accepts(Get(head), draft)
           /\ LET r == Finalized(Chained(Get(head), draft))
              IN  /\ pending' = Append(pending, r)
                  /\ head' = Some(ResumeHead(r.record_hash, r.seq))
    BY Zenon DEF AppendRecord
  <1> DEFINE r == Finalized(Chained(Get(head), draft))
  <1>2. log' = log /\ segment' = segment /\ head # None /\ IsSeq(log) /\ IsSeq(pending)
    BY Zenon DEF AppendRecord, HistoryInv
  <1>3. /\ r.stream_id = draft.stream_id /\ r.segment_id = Get(segment)
        /\ r.seq = NextSeq(Get(head)) /\ r.prev_hash = Get(head).head_hash
        /\ Hashed(r)
        /\ r.ts_wall = draft.ts_wall /\ draft.ts_wall \in Walls
        /\ r.ts_mono_ns = draft.ts_mono_ns /\ draft.ts_mono_ns \in Monos
        /\ r.record_type = draft.record_type
        /\ draft.segment_id = Get(segment)
    BY ChainedFields, Zenon
  <1>4. /\ pending' = Append(pending, r)
        /\ head' = Some(ResumeHead(r.record_hash, r.seq))
        /\ draft.stream_id = Get(head).stream_id
    BY <1>1, Zenon DEF Accepts
  <1> HIDE DEF r
  <1>5. /\ Get(head).stream_id = StreamId
        /\ Get(segment) \in Segments
        /\ r.seq \in Nat
        /\ TracesTo(r.prev_hash, r.seq, r.segment_id, ChainLen)
        /\ FreshNumber(r.seq, r.segment_id, ChainLen)
    BY <1>2, <1>3, Zenon DEF ResumedInv
  <1>6. Recorded(r)
    BY <1>1, <1>3, <1>4, <1>5, RecordAssumption, Zenon DEF Recorded, KeepsTime
  <1>7. /\ IsSeq(pending') /\ ChainLen \in Nat /\ ChainLen' = ChainLen + 1
        /\ \A i \in 1..ChainLen : ChainAt(i)' = ChainAt(i)
    BY <1>2, <1>4, AppendExtendsChain, Zenon
  <1>8. \A i : i = ChainLen + 1 => ChainAt(i)' = r
    BY <1>2, <1>4, AppendExtendsChain, Zenon
  <1>9. ChainLen > 0 => InTime(ChainAt(ChainLen), r)
    <2> SUFFICES ASSUME ChainLen > 0 PROVE InTime(ChainAt(ChainLen), r)
      BY Zenon
    <2>1. Len(log) \in Nat /\ Len(pending) \in Nat
      BY HistoryLengths, Zenon
    <2>2. Latest # None /\ Get(Latest) = ChainAt(ChainLen)
      <3>1. CASE pending # <<>>
        <4>1. Len(pending) > 0
          BY <3>1, <1>2 DEF IsSeq
        <4> QED
          BY <3>1, <4>1, <2>1 DEF Latest, ChainAt, ChainLen, None, Some, Get
      <3>2. CASE pending = <<>>
        <4>1. Len(pending) = 0 /\ log # <<>>
          BY <3>2, <2>1 DEF ChainLen
        <4> QED
          BY <3>2, <4>1, <2>1 DEF Latest, ChainAt, ChainLen, None, Some, Get
      <3> QED
        BY <3>1, <3>2, Zenon
    <2> QED
      BY <1>1, <1>3, <2>2, Zenon DEF KeepsTime, InTime
  <1>10. Continues(r, ChainLen)
    BY <1>5, <1>6, <1>9, Zenon DEF Continues
  <1>11. HistoryInv'
    <2> SUFFICES ASSUME NEW i \in 1..ChainLen'
                 PROVE  Continues(ChainAt(i), i - 1)'
      BY <1>2, <1>7, Zenon DEF HistoryInv
    <2>1. i - 1 \in Nat /\ i - 1 + 1 = i /\ \A j \in 1..(i - 1) : ChainAt(j)' = ChainAt(j)
      BY <1>7
    <2>2. CASE i <= ChainLen
      <3>1. i \in 1..ChainLen /\ ChainAt(i)' = ChainAt(i)
        BY <2>2, <1>7
      <3>2. Continues(ChainAt(i), i - 1)
        BY <3>1, Zenon DEF HistoryInv
      <3> QED
        BY <3>1, <3>2, <2>1, ContinuesKept, Zenon
    <2>3. CASE i = ChainLen + 1
      <3>1. i - 1 = ChainLen /\ ChainAt(i)' = r
        BY <2>3, <1>7, <1>8
      <3>2. Continues(r, i - 1)
        BY <3>1, <1>10, Zenon
      <3> QED
        BY <3>1, <3>2, <2>1, ContinuesKept, Zenon
    <2> QED
      BY <2>2, <2>3, <1>7
  <1>12. ResumedInv'
    <2>1. /\ head' # None
          /\ Get(head').stream_id = StreamId
          /\ Get(head').head_hash = r.record_hash
          /\ NextSeq(Get(head')) = r.seq + 1
      BY <1>4, Zenon DEF Get, Some, None, ResumeHead, NewHead, NextSeq
    <2>2. ChainLen' \in 1..ChainLen' /\ ChainAt(ChainLen)' = r
      BY <1>7, <1>8
    <2>3. TracesTo(Get(head).head_hash, NextSeq(Get(head)), Get(segment), ChainLen)'
      BY <2>1, <2>2, Zenon DEF TracesTo
    <2>4. FreshNumber(NextSeq(Get(head)), Get(segment), ChainLen)'
      <3> SUFFICES ASSUME NEW j \in 1..ChainLen', ChainAt(j)'.segment_id = Get(segment)
                   PROVE  ChainAt(j)'.seq < r.seq + 1
        BY <1>2, <2>1, Zenon DEF FreshNumber, Get
      <3>1. CASE j \in 1..ChainLen
        <4>1. ChainAt(j)' = ChainAt(j) /\ ChainAt(j).seq < r.seq
          BY <3>1, <1>3, <1>5, <1>7, Zenon DEF FreshNumber
        <4>2. ChainAt(j).seq \in Nat
          BY <3>1, Zenon DEF HistoryInv, Continues, Recorded
        <4> QED
          BY <4>1, <4>2, <1>5
      <3>2. CASE j = ChainLen + 1
        BY <3>2, <1>5, <1>8, SMTT(30)
      <3> QED
        BY <3>1, <3>2, <1>7
    <2>5. NextSeq(Get(head')) \in Nat
      BY <2>1, <1>5
    <2>6. Get(segment') \in Segments
      BY <1>2, <1>5
    <2> QED
      BY <2>1, <2>3, <2>4, <2>5, <2>6, Zenon DEF ResumedInv, Get, NextSeq
  <1> QED
    BY <1>11, <1>12, Zenon

\* The other steps of the recorder, and steps of the verifier.
LEMMA HistoryStep ==
    ASSUME HistoryInv, ResumedInv, RecorderNext \/ UNCHANGED recorderVars
    PROVE  /\ HistoryInv' /\ ResumedInv'
           /\ Len(log) \in Nat /\ Len(log') \in Nat /\ Len(log) <= Len(log')
           /\ \A i \in 1..Len(log) : log'[i] = log[i]
  <1>1. IsSeq(log) /\ IsSeq(pending) /\ Len(log) \in Nat
    BY HistoryLengths, Zenon DEF HistoryInv
  <1>2. CASE StartStream \/ Resume \/ ResumeAfterLoss
    <2>1. log' = log
      BY <1>2, Zenon DEF StartStream, Resume, ResumeAfterLoss
    <2> QED
      BY <1>1, <1>2, <2>1, BootResumes
  <1>3. CASE AppendRecord
    BY <1>1, <1>3, AppendContinues DEF AppendRecord
  <1>4. CASE PersistRecord
    <2>1. /\ IsSeq(log') /\ IsSeq(pending')
          /\ ChainLen \in Nat /\ ChainLen' = ChainLen
          /\ \A i \in 1..ChainLen : ChainAt(i)' = ChainAt(i)
          /\ Len(log') = Len(log) + 1
          /\ \A i \in 1..Len(log) : log'[i] = log[i]
      BY <1>1, <1>4, PersistKeepsChain, Zenon
    <2>2. HistoryInv'
      BY <2>1, HistoryKept
    <2>3. head # None /\ head' = head /\ segment' = segment
      BY <1>4, Zenon DEF PersistRecord, ResumedInv
    <2>4. ChainLen > 0 => ChainLen \in 1..ChainLen /\ ChainAt(ChainLen)' = ChainAt(ChainLen)
      BY <2>1
    <2>5. ResumedInv'
      <3>1. /\ TracesTo(Get(head).head_hash, NextSeq(Get(head)), Get(segment), ChainLen)
            /\ FreshNumber(NextSeq(Get(head)), Get(segment), ChainLen)
        BY <2>3, Zenon DEF ResumedInv
      <3>2. TracesTo(Get(head).head_hash, NextSeq(Get(head)), Get(segment), ChainLen)'
        BY <3>1, <2>1, <2>3, <2>4, Zenon DEF TracesTo, GenesisPrevHash, SegmentBreakPrevHash
      <3>3. FreshNumber(NextSeq(Get(head)), Get(segment), ChainLen)'
        BY <3>1, <2>1, <2>3, Zenon DEF FreshNumber
      <3> QED
        BY <3>2, <3>3, <2>3, Zenon DEF ResumedInv
    <2> QED
      BY <1>1, <2>1, <2>2, <2>5
  <1>5. CASE Crash
    <2>1. HistoryInv'
      BY <1>1, <1>5, CrashCutsChain, HistoryKept, Zenon
    <2> QED
      BY <1>1, <1>5, <2>1 DEF Crash, ResumedInv
  <1>6. CASE UNCHANGED <<head, segment, log, pending>>
    <2>1. ChainLen' = ChainLen /\ \A i : ChainAt(i)' = ChainAt(i)
      BY <1>6, Zenon DEF ChainLen, ChainAt
    <2>2. HistoryInv'
      BY <1>1, <1>6, <2>1, HistoryKept, HistoryLengths
    <2>3. ResumedInv'
      BY <1>6, <2>1, Zenon DEF ResumedInv, TracesTo, FreshNumber
    <2> QED
      BY <1>1, <1>6, <2>2, <2>3
  <1>7. CASE AppendRefused \/ UNCHANGED recorderVars
    BY <1>6, <1>7, Zenon DEF AppendRefused, recorderVars
  <1> QED
    BY <1>2, <1>3, <1>4, <1>5, <1>7, Zenon DEF RecorderNext

-----------------------------------------------------------------------------
(* The export. *)

OwnFindings(r) ==
    (IF StreamMismatch(r) THEN {"stream_mismatch"} ELSE {})
      \cup (IF RecordHashMismatch(r) THEN {"record_hash_mismatch"} ELSE {})

\* What verify_next says of line i when every time parses.
LineFindings(i) ==
    OwnFindings(lines[i])
      \cup IF i = 1 THEN FirstFindings(lines[i])
           ELSE NextFindings(lines[i - 1], ParseWall(lines[i - 1].ts_wall), lines[i])

\* The file is a run of the log that ends at the cursor, and the findings are
\* those of its lines.
ExportInv ==
    /\ LastLine
    /\ cursor \in Nat
    /\ cursor <= Len(log)
    /\ Len(lines) <= cursor
    /\ Len(lines) = 0 => cursor = 0
    /\ \A i \in 1..Len(lines) : lines[i] = log[cursor - Len(lines) + i]
    /\ Len(lines) > 0 => prev_wall_ms = ParseWall(lines[Len(lines)].ts_wall)
    /\ \A c : c \in findings <=>
                \/ c = "stream_id_invalid" /\ ~IsUlid(StreamId)
                \/ \E i \in 1..Len(lines) : c \in LineFindings(i)

EInv == HistoryInv /\ ResumedInv /\ ExportInv /\ SeqRulesHold

\* Lines of the export are the recorder's own.
LEMMA LinesRecorded ==
    ASSUME HistoryInv, ExportInv
    PROVE  /\ Len(lines) \in Nat
           /\ \A i \in 1..Len(log) : ChainAt(i) = log[i] /\ Continues(log[i], i - 1)
           /\ \A i \in 1..Len(lines) : Recorded(lines[i])
  <1>1. Len(log) \in Nat /\ Len(pending) \in Nat /\ ChainLen \in Nat /\ Len(log) <= ChainLen
    BY HistoryLengths DEF ChainLen
  <1>2. Len(lines) \in Nat
    BY PrevFacts, Zenon DEF ExportInv
  <1>3. \A i \in 1..Len(log) : ChainAt(i) = log[i] /\ Continues(log[i], i - 1)
    BY <1>1 DEF ChainAt, HistoryInv
  <1>4. \A i \in 1..Len(lines) : cursor - Len(lines) + i \in 1..Len(log)
    BY <1>1, <1>2, SMTT(30) DEF ExportInv
  <1> QED
    BY <1>2, <1>3, <1>4, Zenon DEF ExportInv, Continues

\* A step of the recorder leaves the export alone.
LEMMA RecorderKeepsExport ==
    ASSUME HistoryInv, ExportInv,
           Len(log) \in Nat, Len(log') \in Nat, Len(log) <= Len(log'),
           \A i \in 1..Len(log) : log'[i] = log[i],
           UNCHANGED <<verifierVars, cursor>>
    PROVE  ExportInv'
  <1>1. UNCHANGED <<lines, prev, prev_wall_ms, findings, cursor>>
    BY Zenon DEF verifierVars
  <1>2. Len(lines) \in Nat
    BY LinesRecorded, Zenon
  <1>3. \A i \in 1..Len(lines) : cursor - Len(lines) + i \in 1..Len(log)
    BY <1>2 DEF ExportInv
  <1>4. LastLine'
    BY <1>1, Zenon DEF ExportInv, LastLine
  <1>5. \A i : LineFindings(i)' = LineFindings(i)
    BY <1>1, Zenon DEF LineFindings
  <1>6. \A i \in 1..Len(lines) : lines[i] = log'[cursor - Len(lines) + i]
    BY <1>3, Zenon DEF ExportInv
  <1> QED
    BY <1>1, <1>2, <1>4, <1>5, <1>6 DEF ExportInv

\* The next record of the export extends the run.
LEMMA ReadExtendsExport ==
    ASSUME EInv, ReadExported
    PROVE  ExportInv' /\ SeqRulesHold'
  <1>1. PICK c \in DOMAIN log :
           /\ cursor = 0 \/ c = cursor + 1
           /\ ReadRecord(log[c])
           /\ cursor' = c
    BY Zenon DEF ReadExported
  <1>2. log' = log
    BY Zenon DEF ReadExported, recorderVars
  <1>3. /\ Len(log) \in Nat /\ DOMAIN log = 1..Len(log) /\ c \in 1..Len(log)
    BY HistoryLengths DEF EInv, HistoryInv, IsSeq
  <1>4. /\ Len(lines) \in Nat
        /\ \A i \in 1..Len(lines) : Recorded(lines[i])
        /\ Recorded(log[c])
    BY <1>3, LinesRecorded, Zenon DEF EInv, Continues
  <1> DEFINE n == Len(lines)
             r == log[c]
  <1>5. /\ IsSeq(lines')
        /\ Len(lines') = n + 1
        /\ \A i \in 1..n : lines'[i] = lines[i]
        /\ lines'[n + 1] = r
        /\ lines' # <<>>
        /\ prev' = Some(r)
        /\ findings' = findings \cup RecordFindings(r)
    BY <1>1, ReadFacts, Zenon DEF EInv, ExportInv, LastLine
  <1>6. prev_wall_ms' = ParseWall(r.ts_wall)
    BY <1>1, <1>4, Zenon DEF ReadRecord, VerifyNext, Recorded
  <1>7. SeqRulesHold'
    BY <1>1, <1>4, ReadKeepsSeqRules, Zenon DEF EInv, ExportInv, Recorded
  <1>8. /\ prev = None <=> n = 0
        /\ n > 0 => Get(prev) = lines[n] /\ prev_wall_ms = ParseWall(lines[n].ts_wall)
    BY PrevFacts, Zenon DEF EInv, ExportInv
  <1>9. LastLine'
    BY <1>4, <1>5, Zenon DEF LastLine
  <1>10. /\ cursor \in Nat /\ n <= cursor /\ (n = 0 => cursor = 0)
         /\ \A i \in 1..n : lines[i] = log[cursor - n + i]
    BY Zenon DEF EInv, ExportInv
  <1>a. n \in Nat
    BY <1>4, Zenon
  <1> HIDE DEF n, r
  <1>11. /\ cursor' \in Nat /\ cursor' <= Len(log) /\ n + 1 <= cursor'
    BY <1>1, <1>3, <1>4, <1>10, SMTT(30) DEF n
  <1>12. ASSUME NEW i \in 1..(n + 1)
         PROVE  lines'[i] = log[cursor' - (n + 1) + i]
    <2>1. CASE i = n + 1
      <3>1. cursor' - (n + 1) + i = cursor'
        <4>1. \A x \in Nat : x - (n + 1) + (n + 1) = x
          BY <1>a
        <4> QED
          BY <2>1, <1>11, <4>1, Zenon
      <3> QED
        BY <2>1, <3>1, <1>1, <1>5, Zenon DEF r
    <2>2. CASE i \in 1..n
      <3>1. n > 0 /\ cursor' = cursor + 1
        BY <2>2, <1>1, <1>4, <1>10, SMTT(30) DEF n
      <3>2. cursor' - (n + 1) + i = cursor - n + i
        BY <3>1, <1>4, <1>10 DEF n
      <3> QED
        BY <2>2, <3>2, <1>5, <1>10, Zenon
    <2>3. i = n + 1 \/ i \in 1..n
      BY <1>a
    <2> QED
      BY <2>1, <2>2, <2>3, Zenon
  <1>13. \A i \in 1..n : LineFindings(i)' = LineFindings(i)
    <2> TAKE i \in 1..n
    <2>1. lines'[i] = lines[i] /\ (i # 1 => i - 1 \in 1..n)
      BY <1>4, <1>5 DEF n
    <2>2. i # 1 => lines'[i - 1] = lines[i - 1]
      BY <2>1, <1>5, Zenon
    <2> QED
      BY <2>1, <2>2, Zenon DEF LineFindings
  <1>14. ASSUME NEW i, i = n + 1
         PROVE  LineFindings(i)' = RecordFindings(r)
    <2>1. lines'[i] = r
      BY <1>5, <1>14, Zenon
    <2>2. CASE n = 0
      <3>1. i = 1
        BY <2>2, <1>14
      <3> QED
        BY <2>1, <2>2, <3>1, <1>8, Zenon DEF LineFindings, OwnFindings, RecordFindings
    <2>3. CASE n > 0
      <3>1. i # 1 /\ i - 1 = n /\ n \in 1..n
        BY <2>3, <1>4, <1>14 DEF n
      <3>2. lines'[i - 1] = lines[n]
        BY <3>1, <1>5, Zenon
      <3> QED
        <4>1. n # 0
          BY <2>3, <1>a
        <4> QED
          BY <2>1, <2>3, <3>1, <3>2, <4>1, <1>8, Zenon
          DEF LineFindings, OwnFindings, RecordFindings
    <2>4. n = 0 \/ n > 0
      BY <1>a
    <2> QED
      BY <2>2, <2>3, <2>4, Zenon
  <1>15. ASSUME NEW x
         PROVE  x \in findings' <=>
                   \/ x = "stream_id_invalid" /\ ~IsUlid(StreamId)
                   \/ \E i \in 1..(n + 1) : x \in LineFindings(i)'
    <2>1. x \in findings <=>
             \/ x = "stream_id_invalid" /\ ~IsUlid(StreamId)
             \/ \E i \in 1..n : x \in LineFindings(i)
      BY Zenon DEF EInv, ExportInv, n
    <2>2. x \in findings' <=> x \in findings \/ x \in RecordFindings(r)
      BY <1>5, Zenon
    <2>3. \A i \in 1..(n + 1) : i \in 1..n \/ i = n + 1
      BY <1>4 DEF n
    <2>4. n + 1 \in 1..(n + 1) /\ \A i \in 1..n : i \in 1..(n + 1)
      BY <1>4 DEF n
    <2>5. ASSUME NEW i \in 1..(n + 1), x \in LineFindings(i)'
          PROVE  x \in findings'
      BY <2>1, <2>2, <2>3, <2>5, <1>13, <1>14, Zenon
    <2>6. ASSUME x \in RecordFindings(r)
          PROVE  \E i \in 1..(n + 1) : x \in LineFindings(i)'
      BY <2>4, <2>6, <1>14, Zenon
    <2>7. ASSUME NEW i \in 1..n, x \in LineFindings(i)
          PROVE  \E k \in 1..(n + 1) : x \in LineFindings(k)'
      BY <2>4, <2>7, <1>13, Zenon
    <2>8. ASSUME x = "stream_id_invalid" /\ ~IsUlid(StreamId)
          PROVE  x \in findings'
      BY <2>1, <2>2, <2>8, Zenon
    <2> QED
      BY <2>1, <2>2, <2>5, <2>6, <2>7, <2>8, Zenon
  <1> QED
    BY <1>2, <1>4, <1>5, <1>6, <1>7, <1>9, <1>11, <1>12, <1>15 DEF ExportInv, IsUlid

\* Every step keeps the invariant of recorder and export.
LEMMA ExportStep ==
    ASSUME EInv, [HonestNext]_systemVars
    PROVE  EInv'
  <1>1. CASE RecorderStep \/ UNCHANGED systemVars
    <2>1. (RecorderNext \/ UNCHANGED recorderVars) /\ UNCHANGED <<verifierVars, cursor>>
      BY <1>1, Zenon DEF RecorderStep, systemVars
    <2>2. /\ HistoryInv' /\ ResumedInv'
          /\ Len(log) \in Nat /\ Len(log') \in Nat /\ Len(log) <= Len(log')
          /\ \A i \in 1..Len(log) : log'[i] = log[i]
      BY <2>1, HistoryStep, Zenon DEF EInv
    <2>3. ExportInv'
      BY <2>1, <2>2, RecorderKeepsExport, Zenon DEF EInv
    <2>4. SeqRulesHold'
      BY <2>1 DEF EInv, verifierVars, SeqRulesHold, OneSegment
    <2> QED
      BY <2>2, <2>3, <2>4, Zenon DEF EInv
  <1>2. CASE ReadExported
    <2>1. UNCHANGED recorderVars
      BY <1>2, Zenon DEF ReadExported
    <2>2. HistoryInv' /\ ResumedInv'
      BY <2>1, HistoryStep, Zenon DEF EInv
    <2> QED
      BY <1>2, <2>2, ReadExtendsExport, Zenon DEF EInv
  <1> QED
    BY <1>1, <1>2, Zenon DEF HonestNext

\* It holds initially.
LEMMA ExportInit ==
    ASSUME SystemInit
    PROVE  EInv
  <1>1. /\ log = <<>> /\ pending = <<>> /\ head = None /\ lines = <<>> /\ prev = None
        /\ cursor = 0
        /\ findings = IF IsUlid(StreamId) THEN {} ELSE {"stream_id_invalid"}
    BY Zenon DEF SystemInit, RecorderInit, VerifierInit
  <1>2. IsSeq(<<>>) /\ Len(<<>>) = 0 /\ DOMAIN <<>> = {}
    BY DEF IsSeq
  <1>3. ChainLen = 0
    BY <1>1, <1>2 DEF ChainLen
  <1>4. HistoryInv /\ ResumedInv
    BY <1>1, <1>2, <1>3 DEF HistoryInv, ResumedInv
  <1>5. ExportInv
    BY <1>1, <1>2 DEF ExportInv, LastLine
  <1>6. SeqRulesHold
    BY <1>1, <1>2, Zenon DEF SeqRulesHold
  <1> QED
    BY <1>4, <1>5, <1>6, Zenon DEF EInv

\* How a line of the export stands to the line before it.
LEMMA Neighbours ==
    ASSUME HistoryInv, ExportInv, NEW i \in 2..Len(lines)
    PROVE  /\ i - 1 \in 1..Len(lines) /\ i \in 1..Len(lines)
           /\ Recorded(lines[i - 1]) /\ Recorded(lines[i])
           /\ InTime(lines[i - 1], lines[i])
           /\ \/ \E m \in 1..Len(log) : /\ Recorded(log[m])
                                        /\ lines[i].prev_hash = log[m].record_hash
                                        /\ lines[i].seq = log[m].seq + 1
              \/ /\ lines[i].prev_hash = SegmentBreakPrevHash(StreamId, lines[i].segment_id)
                 /\ lines[i].seq = lines[i - 1].seq + 1
                 /\ lines[i - 1].segment_id # lines[i].segment_id
  <1> DEFINE at == cursor - Len(lines) + i
  <1>1. /\ Len(lines) \in Nat /\ Len(log) \in Nat
        /\ \A j \in 1..Len(log) : ChainAt(j) = log[j] /\ Continues(log[j], j - 1)
        /\ \A j \in 1..Len(lines) : Recorded(lines[j])
    BY LinesRecorded, HistoryLengths, Zenon
  <1>2. /\ i - 1 \in 1..Len(lines) /\ i \in 1..Len(lines)
        /\ at \in 2..Len(log) /\ at - 1 \in 1..Len(log) /\ at \in 1..Len(log)
        /\ cursor - Len(lines) + (i - 1) = at - 1
    <2>1. cursor \in Nat /\ cursor <= Len(log) /\ Len(lines) <= cursor
      BY Zenon DEF ExportInv
    <2> QED
      BY <1>1, <2>1
  <1>3. lines[i] = log[at] /\ lines[i - 1] = log[at - 1]
    BY <1>2, Zenon DEF ExportInv
  <1> HIDE DEF at
  <1>4. Continues(log[at], at - 1) /\ ChainAt(at - 1) = log[at - 1] /\ at - 1 > 0
    BY <1>1, <1>2
  <1>5. InTime(lines[i - 1], lines[i])
    BY <1>3, <1>4, Zenon DEF Continues
  <1>6. CASE \E m \in 1..(at - 1) : /\ log[at].prev_hash = ChainAt(m).record_hash
                                    /\ log[at].seq = ChainAt(m).seq + 1
    <2>1. PICK m \in 1..(at - 1) : /\ log[at].prev_hash = ChainAt(m).record_hash
                                   /\ log[at].seq = ChainAt(m).seq + 1
      BY <1>6, Zenon
    <2>2. m \in 1..Len(log)
      BY <1>1, <1>2
    <2>3. ChainAt(m) = log[m] /\ Recorded(log[m])
      BY <2>2, <1>1, Zenon DEF Continues
    <2> QED
      BY <1>1, <1>2, <1>3, <1>5, <2>1, <2>2, <2>3, Zenon
  <1>7. CASE /\ log[at].prev_hash = SegmentBreakPrevHash(StreamId, log[at].segment_id)
             /\ log[at].seq = ChainAt(at - 1).seq + 1
             /\ \A j \in 1..(at - 1) : ChainAt(j).segment_id # log[at].segment_id
    <2>1. at - 1 \in 1..(at - 1)
      BY <1>2, <1>4
    <2> QED
      BY <1>1, <1>2, <1>3, <1>4, <1>5, <1>7, <2>1, Zenon
  <1>8. at - 1 # 0 /\ TracesTo(log[at].prev_hash, log[at].seq, log[at].segment_id, at - 1)
    BY <1>4 DEF Continues
  <1> QED
    BY <1>6, <1>7, <1>8, Zenon DEF TracesTo

\* A record in time for its predecessor gives no clock finding.
LEMMA InTimeQuiet ==
    ASSUME NEW p, NEW r, InTime(p, r),
           r.ts_mono_ns \in Nat, p.ts_mono_ns \in Nat,
           Get(ParseWall(r.ts_wall)) \in Int, Get(ParseWall(p.ts_wall)) \in Int
    PROVE  ~MonoRegression(p, r) /\ ~WallRegression(p, ParseWall(p.ts_wall), r)
  BY DEF InTime, MonoRegression, WallRegression, WALL_TOLERANCE_MS

\* A line that does not follow a rollback has no finding but a reported break,
\* and a break sentinel is always reported as one.
LEMMA QuietLine ==
    ASSUME HistoryInv, ExportInv, IsUlid(StreamId), \A s \in Segments : IsUlid(s),
           NEW i \in 2..Len(lines), ~AfterRollback(i)
    PROVE  /\ LineFindings(i) \subseteq {"segment_break"}
           /\ IsSegmentBreak(lines[i]) => "segment_break" \in LineFindings(i)
           /\ "segment_break" \in LineFindings(i) => IsSegmentBreak(lines[i])
  <1> DEFINE p == lines[i - 1]
             r == lines[i]
             wallMs == ParseWall(p.ts_wall)
  <1>1. /\ Recorded(p) /\ Recorded(r) /\ InTime(p, r)
        /\ \/ \E m \in 1..Len(log) : /\ Recorded(log[m])
                                     /\ r.prev_hash = log[m].record_hash
                                     /\ r.seq = log[m].seq + 1
           \/ /\ r.prev_hash = SegmentBreakPrevHash(StreamId, r.segment_id)
              /\ r.seq = p.seq + 1
              /\ p.segment_id # r.segment_id
    BY Neighbours, Zenon
  <1>2. LineFindings(i) = OwnFindings(r) \cup NextFindings(p, wallMs, r)
    BY DEF LineFindings
  <1>3. AfterRollback(i) <=> r.prev_hash # p.record_hash /\ r.prev_hash \in LogHashes
    BY Zenon DEF AfterRollback
  <1> HIDE DEF p, r
  <1>4. ~StreamMismatch(r) /\ ~RecordHashMismatch(r)
    BY <1>1, Zenon DEF Recorded, Hashed, StreamMismatch, RecordHashMismatch
  <1>5. ~BadWallTimestamp(r) /\ ~MonoRegression(p, r) /\ ~WallRegression(p, wallMs, r)
    <2>1. /\ r.ts_mono_ns \in Nat /\ p.ts_mono_ns \in Nat
          /\ ParseWall(r.ts_wall) # None
          /\ Get(ParseWall(r.ts_wall)) \in Int /\ Get(ParseWall(p.ts_wall)) \in Int
      BY <1>1, WallIsInteger, Zenon DEF Recorded
    <2>2. ~MonoRegression(p, r) /\ ~WallRegression(p, wallMs, r)
      BY <1>1, <2>1, InTimeQuiet, Zenon
    <2> QED
      BY <2>1, <2>2, Zenon DEF BadWallTimestamp
  <1>6. \/ /\ r.prev_hash = p.record_hash
           /\ r.seq = p.seq + 1
        \/ /\ r.prev_hash # p.record_hash
           /\ SegmentBreak(p, r)
           /\ r.seq = p.seq + 1
    <2>1. CASE \E m \in 1..Len(log) : /\ Recorded(log[m])
                                      /\ r.prev_hash = log[m].record_hash
                                      /\ r.seq = log[m].seq + 1
      <3>1. PICK m \in 1..Len(log) : /\ Recorded(log[m])
                                     /\ r.prev_hash = log[m].record_hash
                                     /\ r.seq = log[m].seq + 1
        BY <2>1, Zenon
      <3>2. r.prev_hash \in LogHashes
        <4>1. IsSeq(log)
          BY Zenon DEF HistoryInv
        <4>2. m \in DOMAIN log
          BY <4>1 DEF IsSeq
        <4> QED
          BY <3>1, <4>2, Zenon DEF LogHashes
      <3>3. p.record_hash = log[m].record_hash
        BY <1>3, <3>1, <3>2, Zenon
      <3>4. p = log[m]
        BY <1>1, <3>1, <3>3, HashInjective, Zenon DEF Recorded
      <3> QED
        BY <3>1, <3>4, Zenon
    <2>2. CASE /\ r.prev_hash = SegmentBreakPrevHash(StreamId, r.segment_id)
               /\ r.seq = p.seq + 1
               /\ p.segment_id # r.segment_id
      <3>1. p.record_hash = ComputeHash(p)
        BY <1>1, Zenon DEF Recorded, Hashed
      <3>2. r.prev_hash # p.record_hash
        BY <2>2, <3>1, HashNotSentinel, Zenon
      <3>3. SegmentBreak(p, r)
        BY <1>1, <2>2, <3>2, Zenon DEF SegmentBreak, IsSegmentBreak, Recorded
      <3> QED
        BY <2>2, <3>2, <3>3, Zenon
    <2> QED
      BY <1>1, <2>1, <2>2, Zenon
  <1>7. ~SeqNotMonotonic(p, r) /\ ~SeqGapInSegment(p, r) /\ ~LinkBroken(p, r)
    <2>1. r.seq \in Nat /\ p.seq \in Nat
      BY <1>1, Zenon DEF Recorded
    <2> QED
      BY <1>6, <2>1 DEF SeqNotMonotonic, SeqGapInSegment, LinkBroken
  <1>8. LineFindings(i) \subseteq {"segment_break"}
    BY <1>2, <1>4, <1>5, <1>7, Zenon DEF OwnFindings, NextFindings
  <1>9. "segment_break" \in LineFindings(i) <=> SegmentBreak(p, r)
    <2>1. "segment_break" \notin OwnFindings(r)
      BY <1>4, Zenon DEF OwnFindings
    <2>2. "segment_break" \in NextFindings(p, wallMs, r) <=> SegmentBreak(p, r)
      BY <1>5, <1>7, Zenon DEF NextFindings
    <2> QED
      BY <1>2, <2>1, <2>2, Zenon
  <1>10. IsSegmentBreak(r) <=> SegmentBreak(p, r)
    <2>1. SegmentBreak(p, r) => IsSegmentBreak(r)
      BY Zenon DEF SegmentBreak
    <2>2. ASSUME IsSegmentBreak(r) PROVE r.prev_hash # p.record_hash
      <3>1. r.prev_hash = SegmentBreakPrevHash(StreamId, r.segment_id)
        BY <1>1, <2>2, Zenon DEF IsSegmentBreak, Recorded
      <3>2. p.record_hash = ComputeHash(p)
        BY <1>1, Zenon DEF Recorded, Hashed
      <3> QED
        BY <3>1, <3>2, HashNotSentinel, Zenon
    <2> QED
      BY <1>6, <2>1, <2>2, Zenon
  <1> QED
    BY <1>8, <1>9, <1>10, Zenon DEF r

\* The first line of an export has no finding.
LEMMA QuietFirstLine ==
    ASSUME HistoryInv, ExportInv, Len(lines) > 0
    PROVE  LineFindings(1) = {}
  <1> DEFINE r == lines[1]
             at == cursor - Len(lines) + 1
  <1>1. /\ Len(lines) \in Nat /\ Len(log) \in Nat
        /\ \A j \in 1..Len(log) : ChainAt(j) = log[j] /\ Continues(log[j], j - 1)
        /\ Recorded(r)
    <2>1. Len(lines) \in Nat /\ 1 \in 1..Len(lines)
      BY LinesRecorded
    <2> QED
      BY <2>1, LinesRecorded, HistoryLengths, Zenon
  <1>2. at \in 1..Len(log) /\ r = log[at]
    BY <1>1 DEF ExportInv
  <1>3. LineFindings(1) = OwnFindings(r) \cup FirstFindings(r)
    BY Zenon DEF LineFindings
  <1> HIDE DEF r, at
  <1>4. ~StreamMismatch(r) /\ ~RecordHashMismatch(r)
    BY <1>1, Zenon DEF Recorded, Hashed, StreamMismatch, RecordHashMismatch
  <1>5. \A j \in 1..(at - 1) : ChainAt(j).seq \in Nat
    <2>1. \A j \in 1..(at - 1) : j \in 1..Len(log)
      BY <1>1, <1>2, SMTT(30)
    <2> QED
      BY <2>1, <1>1, Zenon DEF Continues, Recorded
  <1>6. ~GenesisViolation(r)
    <2>1. TracesTo(r.prev_hash, r.seq, r.segment_id, at - 1)
      BY <1>1, <1>2, Zenon DEF Continues
    <2>2. at - 1 > 0 => at - 1 \in 1..(at - 1)
      BY <1>1, <1>2
    <2> QED
      BY <2>1, <2>2, <1>5 DEF TracesTo, GenesisViolation
  <1> QED
    BY <1>3, <1>4, <1>6, Zenon DEF OwnFindings, FirstFindings

\* No false alarm: an export of the recorder's log, cut anywhere and read while
\* the recorder crashes, boots and appends, has no Error finding, and the one
\* Warning exactly where a boot after loss of local state lies inside it; only
\* a rolled-back head inside the export is different.  The ids are the
\* recorder's own ULIDs.
THEOREM NoFalseAlarmProved ==
    ASSUME IsUlid(StreamId), \A s \in Segments : IsUlid(s)
    PROVE  HonestSpec => []NoFalseAlarm
  <1>1. SystemInit => EInv
    BY ExportInit, Zenon
  <1>2. EInv /\ [HonestNext]_systemVars => EInv'
    BY ExportStep, Zenon
  <1>3. EInv => NoFalseAlarm
    <2> SUFFICES ASSUME EInv, \A i \in 2..Len(lines) : ~AfterRollback(i)
                 PROVE  /\ Clean
                        /\ "segment_break" \in findings <=>
                              \E i \in 2..Len(lines) : IsSegmentBreak(lines[i])
      BY Zenon DEF NoFalseAlarm
    <2>1. HistoryInv /\ ExportInv /\ Len(lines) \in Nat
      BY LinesRecorded, Zenon DEF EInv
    <2>2. \A i \in 2..Len(lines) :
             /\ LineFindings(i) \subseteq {"segment_break"}
             /\ IsSegmentBreak(lines[i]) <=> "segment_break" \in LineFindings(i)
      BY <2>1, QuietLine, Zenon
    <2>3. Len(lines) > 0 => LineFindings(1) = {}
      BY <2>1, QuietFirstLine, Zenon
    <2>4. \A i \in 1..Len(lines) : i = 1 \/ i \in 2..Len(lines)
      BY <2>1
    <2>5. \A c : c \in findings <=> \E i \in 2..Len(lines) : c \in LineFindings(i)
      <3>1. \A c : c \in findings <=> \E i \in 1..Len(lines) : c \in LineFindings(i)
        BY Zenon DEF EInv, ExportInv
      <3>2. \A i \in 2..Len(lines) : i \in 1..Len(lines)
        BY <2>1
      <3>3. ASSUME NEW i \in 1..Len(lines), NEW c \in LineFindings(i)
            PROVE  i \in 2..Len(lines)
        BY <2>1, <2>3, <2>4, <3>3
      <3> QED
        BY <3>1, <3>2, <3>3, Zenon
    <2>6. Clean
      BY <2>2, <2>5, Zenon DEF Clean, Severity
    <2> QED
      BY <2>2, <2>5, <2>6, Zenon
  <1> QED
    BY <1>1, <1>2, <1>3, PTL DEF HonestSpec

LEMMA Within ==
    ASSUME NEW a \in Int, NEW b \in Int, NEW m \in Nat, 1 <= a, a <= b - 1, b <= m
    PROVE  a \in 1..m /\ b \in 1..m /\ a \in 1..(b - 1)
  <1>1. a <= m /\ 1 <= b
    OBVIOUS
  <1>2. a \in 1..m
    BY <1>1
  <1>3. b \in 1..m
    BY <1>1
  <1>4. a \in 1..(b - 1)
    BY SMTT(30)
  <1> QED
    BY <1>2, <1>3, <1>4, Zenon

\* A rollback is reported: where an export spans the point at which a boot from
\* an outdated head wrote a second history, both the broken link and the
\* repeated numbers are among the findings, however far back the head was.
THEOREM RollbackReportedProved == HonestSpec => []RollbackReported
  <1>1. SystemInit => EInv
    BY ExportInit, Zenon
  <1>2. EInv /\ [HonestNext]_systemVars => EInv'
    BY ExportStep, Zenon
  <1>3. EInv => RollbackReported
    <2> SUFFICES ASSUME EInv, NEW i \in 2..Len(lines), NEW k \in 1..(i - 2),
                        lines[i].prev_hash = lines[k].record_hash
                 PROVE  {"chain_link_broken", "seq_not_monotonic"} \subseteq findings
      BY Zenon DEF RollbackReported
    <2>1. /\ HistoryInv /\ ExportInv /\ Len(lines) \in Nat
          /\ \A j \in 1..Len(lines) : Recorded(lines[j])
      BY LinesRecorded, Zenon DEF EInv
    <2>2. /\ k \in 1..Len(lines) /\ k + 1 \in 1..Len(lines) /\ i - 1 \in 1..Len(lines)
          /\ i \in 1..Len(lines) /\ k < k + 1 /\ k + 1 < i /\ k < i - 1 /\ i # 1
      BY <2>1
    <2>3. /\ Recorded(lines[i]) /\ Recorded(lines[k])
          /\ Recorded(lines[i - 1]) /\ Recorded(lines[k + 1])
      BY <2>1, <2>2, Zenon
    <2>4. lines[i].prev_hash = ComputeHash(lines[k])
      BY <2>3, Zenon DEF Recorded, Hashed
    <2>5. lines[i].seq = lines[k].seq + 1
      <3>1. lines[i].prev_hash # SegmentBreakPrevHash(StreamId, lines[i].segment_id)
        BY <2>4, HashNotSentinel, Zenon
      <3>2. PICK m \in 1..Len(log) : /\ Recorded(log[m])
                                     /\ lines[i].prev_hash = log[m].record_hash
                                     /\ lines[i].seq = log[m].seq + 1
        BY <2>1, <3>1, Neighbours, Zenon
      <3>3. log[m] = lines[k]
        BY <2>3, <3>2, HashInjective, Zenon DEF Recorded
      <3> QED
        BY <3>2, <3>3, Zenon
    <2>6. "seq_not_monotonic" \in findings
      <3> SUFFICES ASSUME "seq_not_monotonic" \notin findings PROVE FALSE
        BY Zenon
      <3>1. DOMAIN lines = 1..Len(lines)
        BY <2>1 DEF ExportInv, LastLine, IsSeq
      <3>2. lines[k].seq < lines[k + 1].seq /\ lines[k + 1].seq < lines[i].seq
        BY <2>2, <3>1, Zenon DEF EInv, SeqRulesHold
      <3>3. lines[k].seq \in Nat /\ lines[k + 1].seq \in Nat /\ lines[i].seq \in Nat
        BY <2>3, Zenon DEF Recorded
      <3> QED
        BY <2>5, <3>2, <3>3, SMTT(30)
    <2>7. lines[i].prev_hash # lines[i - 1].record_hash
      <3> SUFFICES ASSUME lines[i].prev_hash = lines[i - 1].record_hash PROVE FALSE
        BY Zenon
      <3>1. lines[k] = lines[i - 1]
        BY <2>3, HashInjective, Zenon DEF Recorded
      <3> DEFINE atK == cursor - Len(lines) + k
                 atI == cursor - Len(lines) + (i - 1)
      <3>2. /\ Len(log) \in Nat
            /\ \A j \in 1..Len(log) : ChainAt(j) = log[j] /\ Continues(log[j], j - 1)
        BY <2>1, LinesRecorded, HistoryLengths, Zenon
      <3>3. /\ atK \in 1..Len(log) /\ atI \in 1..Len(log) /\ atK \in 1..(atI - 1)
        <4>1. /\ cursor \in Nat /\ cursor <= Len(log) /\ Len(lines) <= cursor
              /\ Len(lines) \in Nat /\ Len(log) \in Nat
          BY <2>1, <3>2, Zenon DEF ExportInv
        <4>2. atI \in Int /\ 1 <= atI /\ atI <= Len(log)
          BY <4>1, SMTT(30)
        <4>3. atK \in Int /\ 1 <= atK /\ atK <= atI - 1
          BY <4>1, SMTT(30)
        <4> HIDE DEF atK, atI
        <4> QED
          BY <4>1, <4>2, <4>3, Within, Zenon
      <3>4. log[atK] = lines[k] /\ log[atI] = lines[i - 1]
        BY <2>1, <2>2, Zenon DEF ExportInv
      <3> HIDE DEF atK, atI
      <3>5. FreshNumber(log[atI].seq, log[atI].segment_id, atI - 1) /\ ChainAt(atK) = log[atK]
        BY <3>2, <3>3, Zenon DEF Continues
      <3>6. lines[k].seq < lines[i - 1].seq
        BY <3>1, <3>3, <3>4, <3>5, Zenon DEF FreshNumber
      <3>7. lines[k].seq \in Nat
        BY <2>3, Zenon DEF Recorded
      <3> QED
        BY <3>1, <3>6, <3>7
    <2>8. LinkBroken(lines[i - 1], lines[i])
      <3>1. lines[i].stream_id = StreamId
        BY <2>3, Zenon DEF Recorded
      <3>2. ~SegmentBreak(lines[i - 1], lines[i])
        BY <2>4, <3>1, HashNotSentinel, Zenon DEF SegmentBreak, IsSegmentBreak
      <3> QED
        BY <2>7, <3>2, Zenon DEF LinkBroken
    <2>9. "chain_link_broken" \in LineFindings(i)
      BY <2>2, <2>8, Zenon DEF LineFindings, NextFindings
    <2>10. "chain_link_broken" \in findings
      BY <2>2, <2>9, Zenon DEF EInv, ExportInv
    <2> QED
      BY <2>6, <2>10, Zenon
  <1> QED
    BY <1>1, <1>2, <1>3, PTL DEF HonestSpec
=============================================================================
