------------------------- MODULE AttestationProofs -------------------------
(***************************************************************************)
(* What attestation means, for every value of the constants: attested      *)
(* records are in the bundle with the hashes the recorder signed, and the  *)
(* count behind unattested_tail, a difference of two sizes, is exact.      *)
(*                                                                         *)
(* The code never looks at the records of a range one by one: it collects  *)
(* hashes up to the first gap and compares a length, computed in u64, with *)
(* the size of the range.  WholeRange shows that this suffices as long as  *)
(* a stream has fewer than 2^64 records.                                   *)
(***************************************************************************)
EXTENDS CheckpointProofs, FiniteSetTheorems

\* A checkpoint that passes the first checks carries a note of the recorder.
LEMMA UnrejectedSigned ==
    ASSUME Base, NEW bc, Listable(bc), Rejection(bc) = None
    PROVE  bc.note \in Signed
  <1>1. PICK note \in Signed : \/ bc.signature = Signature(RecorderKey, note)
                               \/ bc.signature = Signature(OtherKey, bc.note)
    BY DEF Listable
  <1>2. /\ bc.note.recorder_cert_fingerprint \in DOMAIN cert_map
        /\ bc.signature = Signature(cert_map[bc.note.recorder_cert_fingerprint], bc.note)
    BY DEF Rejection, Some, None
  <1>3. bc.signature = Signature(RecorderKey, bc.note)
    BY <1>2 DEF Base
  <1> QED
    BY <1>1, <1>3, KeysAssumption DEF Signature

\* Of a range that is not empty, the hashes collected are as many as it is long
\* only if all of its records are there: its size does not wrap.
LEMMA RangeSize ==
    ASSUME Base, NEW note, WellFormed(note), note.seq_from <= note.seq_to
    PROVE  /\ FullyExported(note) <=> Present(note) = Seqs(note)
           /\ Len(Covered(note)) = Cardinality(Present(note))
           /\ Cardinality(Seqs(note)) = note.seq_to - note.seq_from + 1
  <1> DEFINE from == note.seq_from
             to   == note.seq_to
             max  == scenario.max_records
             P    == Present(note)
  <1>1. /\ max \in 0..(U64 - 1) /\ U64 \in Nat /\ from \in 0..(max - 1) /\ to \in 0..(max - 1)
        /\ from <= to
    BY SystemAssumption, WidthAssumption DEF Base, WellFormed
  <1>2. Seqs(note) = from..to
    BY DEF Seqs
  <1>3. P \subseteq from..to
    BY <1>2 DEF Present
  <1>4. IsFiniteSet(from..to) /\ Cardinality(from..to) = to - from + 1
    <2>1. from \in Int /\ to \in Int /\ ~(from > to)
      BY <1>1
    <2> HIDE DEF from, to
    <2> QED
      BY <2>1, FS_Interval
  <1>5. IsFiniteSet(P) /\ Cardinality(P) \in Nat
    BY <1>3, <1>4, FS_Subset, FS_CardinalityType
  <1>6. Len(Covered(note)) = Cardinality(P)
    <2> DEFINE c == Covered(note)
               n == Cardinality(P)
    <2>1. c = [i \in 1..n |-> c[i]]
      BY DEF Covered
    <2> HIDE DEF c, n
    <2>2. n \in Nat
      BY <1>5 DEF n
    <2>3. Len(c) = n
      BY <2>1, <2>2, FunctionSeq
    <2> QED
      BY <2>3 DEF c, n
  <1>7. (to - from + 1) % U64 = to - from + 1
    <2> HIDE DEF from, to, max
    <2>1. to - from + 1 \in 0..(U64 - 1)
      BY <1>1
    <2> QED
      BY <1>1, <2>1
  <1>8. Cardinality(P) = Cardinality(from..to) => P = from..to
    <2> HIDE DEF P
    <2> QED
      BY <1>3, <1>4, FS_Subset
  <1>9. FullyExported(note) <=> Cardinality(P) = Cardinality(from..to)
    BY <1>4, <1>6, <1>7 DEF FullyExported
  <1> HIDE DEF P
  <1>10. FullyExported(note) <=> P = from..to
    BY <1>8, <1>9
  <1> QED
    BY <1>2, <1>4, <1>6, <1>10 DEF P

\* So each hash is at its place.
LEMMA WholeRange ==
    ASSUME Base, NEW note, WellFormed(note), FullyExported(note), NEW s \in Seqs(note)
    PROVE  /\ s \in DOMAIN hashes_by_seq
           /\ Covered(note)[s - note.seq_from + 1] = hashes_by_seq[s]
  <1> DEFINE from == note.seq_from
             to   == note.seq_to
  <1>1. from \in Int /\ to \in Int
    BY SystemAssumption, WidthAssumption DEF Base, WellFormed
  <1>2. s \in Int /\ from <= s /\ s <= to /\ from <= to
    BY <1>1 DEF Seqs
  <1>3. Present(note) = Seqs(note) /\ Cardinality(Seqs(note)) = to - from + 1
    BY <1>2, RangeSize
  <1>4. s \in DOMAIN hashes_by_seq
    BY <1>1, <1>2, <1>3 DEF Present
  <1>5. s - from + 1 \in 1..Cardinality(Present(note))
    BY <1>1, <1>2, <1>3
  <1>6. Covered(note)[s - from + 1] = hashes_by_seq[from + (s - from + 1) - 1]
    BY <1>5 DEF Covered
  <1>7. from + (s - from + 1) - 1 = s
    BY <1>1, <1>2
  <1> QED
    BY <1>4, <1>6, <1>7

-----------------------------------------------------------------------------
(* Attestation is earned. *)

\* Nothing is attested before the bundle is read.
GenuineInv ==
    /\ stage = "recording" => attested_seqs = {}
    /\ AttestedGenuine

\* The hash that a note of the recorder has at the place of a record.
HashAt(note, s) == note.merkle_root[2][s - note.seq_from + 1]

LEMMA GenuineNext == Base /\ GenuineInv /\ [Next]_systemVars => GenuineInv'
  <1> SUFFICES ASSUME Base, GenuineInv, [Next]_systemVars PROVE GenuineInv'
    OBVIOUS
  <1>1. CASE Records \/ Exports
    BY <1>1 DEF Records, Exports, checkpointVars, derivedVars, GenuineInv, AttestedGenuine
  <1>2. CASE Finish \/ UNCHANGED systemVars
    <2>1. /\ UNCHANGED <<attested_seqs, hashes_by_seq>> /\ Signed' = Signed
          /\ stage' = "recording" => stage = "recording"
      BY <1>2 DEF Finish, CrossCheck, inputVars, systemVars, checkpointVars, derivedVars,
                  recordingVars, Signed
    <2> QED
      BY <2>1 DEF GenuineInv, AttestedGenuine, Seqs
  <1>3. CASE ReadsListable
    <2>1. PICK bc : Reads(bc) /\ Listable(bc)
      BY <1>3 DEF ReadsListable
    <2>2. UNCHANGED hashes_by_seq /\ Signed' = Signed /\ stage' = "verifying"
      BY <2>1, ReadFacts DEF Reads
    <2>3. ASSUME NEW s \in attested_seqs'
          PROVE  /\ s \in DOMAIN hashes_by_seq
                 /\ \E note \in Signed : s \in Seqs(note) /\ HashAt(note, s) = hashes_by_seq[s]
      <3>1. CASE s \in attested_seqs
        BY <3>1 DEF GenuineInv, AttestedGenuine, HashAt
      <3>2. CASE s \notin attested_seqs
        <4>1. /\ Rejection(bc) = None /\ ~RootMismatch(bc.note) /\ FullyExported(bc.note)
              /\ s \in Seqs(bc.note)
          BY <2>1, <3>2, AttestsOwn
        <4>2. bc.note \in Signed
          BY <2>1, <4>1, UnrejectedSigned
        <4>3. /\ s \in DOMAIN hashes_by_seq
              /\ Covered(bc.note)[s - bc.note.seq_from + 1] = hashes_by_seq[s]
          BY <4>1, <4>2, WholeRange DEF Base
        <4>4. bc.note.merkle_root = <<"root", Covered(bc.note)>>
          BY <4>1 DEF RootMismatch, VerifyRoot, MerkleRoot
        <4>5. HashAt(bc.note, s) = hashes_by_seq[s]
          BY <4>3, <4>4 DEF HashAt
        <4> QED
          BY <4>1, <4>2, <4>3, <4>5
      <3> QED
        BY <3>1, <3>2
    <2> QED
      BY <2>2, <2>3 DEF GenuineInv, AttestedGenuine, HashAt, Seqs
  <1> QED
    BY <1>1, <1>2, <1>3, BaseSteps

\* For any number of records, notes and edits: a record counts as attested only
\* if it is in the bundle with the hash that a note signed by the recorder has at
\* its place.  The argument needs the certificate's key to differ from those of
\* others, signatures and Merkle roots that determine what they are made of, and
\* fewer than 2^64 records.
THEOREM AttestationEarned == Spec => []AttestedGenuine
  <1>1. SystemInit => GenuineInv
    BY DEF SystemInit, CheckpointsInit, GenuineInv, AttestedGenuine
  <1>2. GenuineInv => AttestedGenuine
    BY DEF GenuineInv
  <1> QED
    BY <1>1, <1>2, BaseInit, BaseNext, GenuineNext, PTL DEF Spec

-----------------------------------------------------------------------------
(* The unattested tail. *)

\* The warning is given at the end and not before.
TailInv ==
    /\ "unattested_tail" \in findings => stage = "done"
    /\ UnattestedReported

LEMMA TailNext == Base /\ GenuineInv /\ TailInv /\ [Next]_systemVars => TailInv'
  <1> SUFFICES ASSUME Base, GenuineInv, TailInv, [Next]_systemVars PROVE TailInv'
    OBVIOUS
  <1>1. CASE Records \/ Exports
    BY <1>1 DEF Records, Exports, checkpointVars, derivedVars, TailInv, UnattestedReported
  <1>2. CASE UNCHANGED systemVars
    BY <1>2 DEF systemVars, checkpointVars, inputVars, derivedVars, TailInv, UnattestedReported
  <1>3. CASE ReadsListable
    <2>1. PICK bc : Reads(bc)
      BY <1>3 DEF ReadsListable
    <2>2. "unattested_tail" \in findings' => "unattested_tail" \in findings
      <3>1. RejectCheckpoint(bc) \/ RejectRoot(bc) \/ RejectCountersignature(bc)
            \/ AcceptCheckpoint(bc)
        BY <2>1 DEF Reads, VerifyCheckpoint
      <3>2. "unattested_tail" \notin NoteFindings(bc.note) \cup CountersignatureFindings(bc)
        BY DEF NoteFindings, CountersignatureFindings
      <3>3. Rejection(bc) # None => Get(Rejection(bc)) # "unattested_tail"
        BY DEF Rejection, Get, Some, None
      <3> QED
        BY <3>1, <3>2, <3>3 DEF RejectCheckpoint, RejectRoot, RejectCountersignature,
                                AcceptCheckpoint
    <2>3. stage = "verifying" /\ stage' = "verifying"
      BY <2>1 DEF Reads
    <2> QED
      BY <2>2, <2>3 DEF TailInv, UnattestedReported
  <1>4. CASE Finish
    <2>1. /\ UNCHANGED <<hashes_by_seq, attested_seqs>> /\ stage = "verifying" /\ stage' = "done"
          /\ findings' = findings \cup CoverageFindings(pinned)
      BY <1>4 DEF Finish, CrossCheck, inputVars
    <2>2. "unattested_tail" \in findings'
             <=> Cardinality(DOMAIN hashes_by_seq) > Cardinality(attested_seqs)
      BY <2>1 DEF CoverageFindings, TailInv
    <2>3. IsFiniteSet(DOMAIN hashes_by_seq)
      <3>1. scenario.max_records - 1 \in Int
        BY SystemAssumption, WidthAssumption DEF Base
      <3>2. IsFiniteSet(0..(scenario.max_records - 1))
        BY <3>1, FS_Interval
      <3> QED
        BY <3>2, FS_Subset DEF Base
    <2>4. attested_seqs \subseteq DOMAIN hashes_by_seq
      BY DEF GenuineInv, AttestedGenuine
    <2> DEFINE D == DOMAIN hashes_by_seq
               A == attested_seqs
    <2>5. /\ Cardinality(D) \in Nat /\ Cardinality(A) \in Nat
          /\ Cardinality(A) <= Cardinality(D)
          /\ Cardinality(D) = Cardinality(A) => D = A
      BY <2>3, <2>4, FS_Subset, FS_CardinalityType
    <2>6. Cardinality(D) > Cardinality(A) <=> D \ A # {}
      BY <2>4, <2>5
    <2> QED
      BY <2>1, <2>2, <2>6 DEF TailInv, UnattestedReported
  <1> QED
    BY <1>1, <1>2, <1>3, <1>4, BaseSteps

\* For any bundle, unattested_tail is reported exactly when some record of the
\* bundle is not attested: the two sizes the code compares are those of a set and
\* of a subset of it.
THEOREM TailReported == Spec => []UnattestedReported
  <1>1. SystemInit => TailInv
    BY DEF SystemInit, CheckpointsInit, TailInv, UnattestedReported
  <1>2. TailInv => UnattestedReported
    BY DEF TailInv
  <1>3. SystemInit => GenuineInv
    BY DEF SystemInit, CheckpointsInit, GenuineInv, AttestedGenuine
  <1> QED
    BY <1>1, <1>2, <1>3, BaseInit, BaseNext, GenuineNext, TailNext, PTL DEF Spec

-----------------------------------------------------------------------------
(* What the loop derives is consistent. *)

\* A mark the stream has reached.
Reached(option) == option = None \/ (Get(option) \in Int /\ Get(option) < extent)

\* The console and the user only state marks the stream has reached; nothing is
\* derived while the recorder runs; and each sum of the accepted notes agrees
\* with the others.
DerivedInv ==
    /\ \A c \in countersignatures : Reached(c.stream_high_water_seq)
    /\ Reached(pinned)
    /\ Reached(countersigned_high_water)
    /\ stage = "recording" =>
          /\ valid_checkpoint_ranges = {} /\ pinned = None
          /\ countersigned_high_water = None /\ top_checkpoint = None
    /\ \A v \in valid_checkpoint_ranges :
          /\ \E r \in ranges : r.from..r.to = v.seqs
          /\ v.digest \in checkpoint_note_hashes
    /\ valid_checkpoint_ranges = {} <=> top_checkpoint = None
    /\ top_checkpoint # None =>
          /\ Get(top_checkpoint).seq_to \in Int
          /\ \A v \in valid_checkpoint_ranges :
                \A s \in v.seqs : s \in Int /\ s <= Get(top_checkpoint).seq_to

\* A mark asserted in the bundle is one the console stated.
LEMMA AssertedReached ==
    ASSUME DerivedInv, NEW bc, Listable(bc)
    PROVE  Reached(AssertedHighWater(bc))
  BY DEF DerivedInv, Listable, AssertedHighWater, Reached

LEMMA RaisedReached ==
    ASSUME NEW a, Reached(a), Reached(countersigned_high_water)
    PROVE  Reached(Raised(a))
  BY DEF Raised, MaxWith, Reached, Some, None, Get

\* The recorder and the console keep to marks the stream has reached.
LEMMA RecordsReached ==
    ASSUME Base, DerivedInv, Records, Next
    PROVE  /\ extent \in Int /\ extent' \in Int /\ extent' >= extent
           /\ \A c \in countersignatures' : Reached(c.stream_high_water_seq)'
  <1>1. extent \in Int
    BY SystemAssumption, WidthAssumption DEF Base
  <1>2. CASE WriteRecord
    BY <1>1, <1>2 DEF WriteRecord, DerivedInv, Reached
  <1>3. CASE EmitCheckpoint \/ EmitForked \/ EmitReversed
    <2>1. UNCHANGED <<extent, countersignatures>>
      BY <1>3, Zenon DEF EmitCheckpoint, EmitForked, EmitReversed
    <2> QED
      BY <1>1, <2>1 DEF DerivedInv, Reached
  <1>4. CASE Countersign
    <2>1. PICK i \in DOMAIN notes :
             \E stated \in scenario.high_waters, hw \in notes[i].seq_to..(extent - 1) :
             countersignatures' = countersignatures
                \cup {[checkpoint_id |-> notes[i].checkpoint_id,
                       stream_high_water_seq |-> IF stated THEN Some(hw) ELSE None]}
      BY <1>4 DEF Countersign
    <2>2. notes[i].seq_to \in Int
      BY SystemAssumption, WidthAssumption DEF Base, WellFormed, Signed
    <2>3. PICK stated \in scenario.high_waters, hw \in notes[i].seq_to..(extent - 1) :
             countersignatures' = countersignatures
                \cup {[checkpoint_id |-> notes[i].checkpoint_id,
                       stream_high_water_seq |-> IF stated THEN Some(hw) ELSE None]}
      BY <2>1
    <2>4. extent' = extent /\ hw \in Int /\ hw < extent
      BY <1>1, <1>4, <2>2, <2>3 DEF Countersign
    <2>5. \A c \in countersignatures' : \/ c \in countersignatures
                                        \/ c.stream_high_water_seq = Some(hw)
                                        \/ c.stream_high_water_seq = None
      BY <2>3
    <2> QED
      BY <1>1, <2>4, <2>5 DEF DerivedInv, Reached, Some, Get
  <1>5. ~(ExportHonest \/ CheckExported \/ ExportAny \/ CheckAny \/ Finish)
    BY DEF Records, ExportHonest, CheckExported, ExportAny, CheckAny, Finish
  <1> QED
    BY <1>2, <1>3, <1>4, <1>5 DEF Next

\* An accepted note joins the ranges, the digests and the top consistently.
LEMMA AcceptDerives ==
    ASSUME Base, DerivedInv, NEW bc, Listable(bc), AcceptCheckpoint(bc)
    PROVE  /\ \A v \in valid_checkpoint_ranges' :
                 /\ \E r \in ranges' : r.from..r.to = v.seqs
                 /\ v.digest \in checkpoint_note_hashes'
           /\ valid_checkpoint_ranges' # {} /\ top_checkpoint' # None
           /\ Get(top_checkpoint').seq_to \in Int
           /\ \A v \in valid_checkpoint_ranges' :
                 \A s \in v.seqs : s \in Int /\ s <= Get(top_checkpoint').seq_to
  <1> DEFINE note == bc.note
             new  == [id |-> note.checkpoint_id, seqs |-> Seqs(note), digest |-> NoteHash(note)]
             r0   == [from |-> note.seq_from, to |-> note.seq_to, root |-> note.merkle_root]
             top  == [id |-> note.checkpoint_id, seq_to |-> note.seq_to]
  <1>1. note.seq_from \in Int /\ note.seq_to \in Int
    BY UnrejectedSigned, SystemAssumption, WidthAssumption DEF AcceptCheckpoint, Base, WellFormed
  <1>2. \A v \in valid_checkpoint_ranges' : v \in valid_checkpoint_ranges \/ v = new
    BY DEF AcceptCheckpoint
  <1>3. new \in valid_checkpoint_ranges'
    BY DEF AcceptCheckpoint
  <1>4. /\ ranges' = ranges \cup {r0}
        /\ checkpoint_note_hashes' = checkpoint_note_hashes \cup {NoteHash(note)}
        /\ top_checkpoint' = IF Tops(note) THEN Some(top) ELSE top_checkpoint
    BY DEF AcceptCheckpoint, RecordRange
  <1>5. r0.from..r0.to = new.seqs /\ new.digest = NoteHash(note)
    BY DEF Seqs
  <1>6. \A s \in new.seqs : s \in Int /\ s <= note.seq_to
    BY <1>1 DEF Seqs
  <1>7. top.seq_to = note.seq_to
    OBVIOUS
  <1> HIDE DEF new, r0, top, note
  <1>8. /\ top_checkpoint' # None /\ Get(top_checkpoint').seq_to \in Int
        /\ note.seq_to <= Get(top_checkpoint').seq_to
        /\ top_checkpoint # None => /\ Get(top_checkpoint).seq_to \in Int
                                    /\ Get(top_checkpoint).seq_to <= Get(top_checkpoint').seq_to
    BY <1>1, <1>4, <1>7 DEF DerivedInv, Tops, Some, None, Get
  <1>9. \A v \in valid_checkpoint_ranges' :
           /\ \E r \in ranges' : r.from..r.to = v.seqs
           /\ v.digest \in checkpoint_note_hashes'
    BY <1>2, <1>4, <1>5 DEF DerivedInv
  <1>10. \A v \in valid_checkpoint_ranges' :
            \A s \in v.seqs : s \in Int /\ s <= Get(top_checkpoint').seq_to
    BY <1>1, <1>2, <1>6, <1>8 DEF DerivedInv
  <1> QED
    BY <1>3, <1>8, <1>9, <1>10

LEMMA DerivedNext == Base /\ DerivedInv /\ [Next]_systemVars => DerivedInv'
  <1> SUFFICES ASSUME Base, DerivedInv, [Next]_systemVars PROVE DerivedInv'
    OBVIOUS
  <1>1. CASE UNCHANGED systemVars
    BY <1>1 DEF systemVars, recordingVars, checkpointVars, inputVars, derivedVars, DerivedInv,
                Reached
  <1>2. CASE Records /\ Next
    <2>1. UNCHANGED <<stage, pinned, derivedVars>> /\ stage = "recording"
      BY <1>2 DEF Records, checkpointVars
    <2> QED
      BY <1>2, <2>1, RecordsReached DEF DerivedInv, derivedVars, Reached
  <1>3. CASE Exports /\ Next
    <2>1. UNCHANGED <<extent, countersignatures, derivedVars>> /\ stage' = "verifying"
      BY <1>3 DEF Exports, recordingVars
    <2>2. Pin /\ stage = "recording"
      BY <1>3 DEF Exports, Next, WriteRecord, EmitCheckpoint, EmitForked, EmitReversed, Countersign,
                  ExportHonest, CheckExported, ExportAny, CheckAny, Finish
    <2>3. Reached(pinned)'
      BY <2>1, <2>2, SystemAssumption DEF Pin, Reached, Base
    <2> QED
      BY <2>1, <2>3 DEF DerivedInv, derivedVars, Reached
  <1>4. CASE ReadsListable
    <2>1. PICK bc : Reads(bc) /\ Listable(bc)
      BY <1>4 DEF ReadsListable
    <2>2. UNCHANGED <<extent, countersignatures, pinned>> /\ stage' = "verifying"
      BY <2>1 DEF Reads, recordingVars
    <2>3. CASE AcceptCheckpoint(bc)
      <3>1. Reached(countersigned_high_water)'
        BY <2>1, <2>2, <2>3, AssertedReached, RaisedReached DEF AcceptCheckpoint, DerivedInv, Reached
      <3> QED
        BY <2>1, <2>2, <2>3, <3>1, AcceptDerives DEF DerivedInv, Reached
    <2>4. CASE ~AcceptCheckpoint(bc)
      <3>1. /\ UNCHANGED <<countersigned_high_water, checkpoint_note_hashes, top_checkpoint,
                           valid_checkpoint_ranges>>
            /\ ranges \subseteq ranges'
        BY <2>1, <2>4 DEF Reads, VerifyCheckpoint, RejectCheckpoint, RejectRoot,
                          RejectCountersignature, RecordRange
      <3> QED
        BY <2>2, <3>1 DEF DerivedInv, Reached
    <2> QED
      BY <2>3, <2>4
  <1>5. CASE Finish
    BY <1>5 DEF Finish, CrossCheck, recordingVars, DerivedInv, Reached
  <1> QED
    BY <1>1, <1>2, <1>3, <1>4, <1>5, BaseSteps

\* For any bundle, what verify_checkpoints derives is consistent in every state:
\* only records of the stream are attested, no mark is beyond what the stream had
\* reached, every accepted note left its range and its digest behind, and the top
\* checkpoint is there as soon as a note is accepted and reaches as far as any.
THEOREM CheckpointTyped == Spec => []CheckpointTypeOK
  <1>1. SystemInit => DerivedInv
    BY DEF SystemInit, CheckpointsInit, DerivedInv, Reached
  <1>2. SystemInit => GenuineInv
    BY DEF SystemInit, CheckpointsInit, GenuineInv, AttestedGenuine
  <1>3. ASSUME Base, GenuineInv, DerivedInv PROVE CheckpointTypeOK
    <2>1. DOMAIN hashes_by_seq \subseteq 0..(scenario.max_records - 1)
      BY <1>3 DEF Base
    <2>2. attested_seqs \subseteq DOMAIN hashes_by_seq
      BY <1>3 DEF GenuineInv, AttestedGenuine
    <2>3. Accepted = {} <=> top_checkpoint = None
      BY <1>3 DEF DerivedInv, Accepted
    <2> QED
      BY <1>3, <2>1, <2>2, <2>3 DEF DerivedInv, Reached, CheckpointTypeOK
  <1> QED
    BY <1>1, <1>2, <1>3, BaseInit, BaseNext, GenuineNext, DerivedNext, PTL DEF Spec

-----------------------------------------------------------------------------
(* The recorder's own notes. *)

\* The hashes of the recorder's records in a range.
Leaves(from, to) == [k \in 1..(to - from + 1) |-> RecordHash(from + k - 1)]

\* A note over records the recorder has written, in its own name.
OwnNote(n, id, written) ==
    /\ n.checkpoint_id = id
    /\ n.stream_id = StreamId
    /\ n.recorder_cert_fingerprint = RecorderCert
    /\ n.seq_from \in Nat /\ n.seq_to \in Nat
    /\ n.seq_from <= n.seq_to /\ n.seq_to < written
    /\ n.tree_size = n.seq_to - n.seq_from + 1
    /\ n.merkle_root = MerkleRoot(Leaves(n.seq_from, n.seq_to))
    /\ n.chain_head_hash = RecordHash(n.seq_to)

\* The notes are numbered, follow one another in the stream, and each is linked
\* to the one before it.
NotesInv ==
    \A i \in 1..Len(notes) :
       /\ OwnNote(notes[i], <<"main", i>>, extent)
       /\ \A j \in 1..(i - 1) : notes[j].seq_to < notes[i].seq_from
       /\ notes[i].prev_checkpoint_hash = IF i = 1 THEN None ELSE Some(NoteHash(notes[i - 1]))

\* What build_note_linked makes of the records written since the last note.
LEMMA EmitsOwnNote ==
    ASSUME Base, NotesInv, EmitCheckpoint
    PROVE  \E n : /\ notes' = Append(notes, n)
                  /\ OwnNote(n, <<"main", Len(notes) + 1>>, extent)
                  /\ n.seq_from = FirstUncovered
                  /\ n.prev_checkpoint_hash = LastNoteHash
  <1> DEFINE size == extent - FirstUncovered
             h    == [i \in 1..size |-> RecordHash(FirstUncovered + i - 1)]
             id   == <<"main", Len(notes) + 1>>
             prev == LastNoteHash
             from == FirstUncovered
  <1>1. PICK time : notes' = Append(notes, BuildNote(id, from, h, time, RecorderCert, prev))
    BY DEF EmitCheckpoint
  <1>2. extent \in Nat /\ Len(notes) \in Nat
    BY SystemAssumption, WidthAssumption DEF Base, IsSeq
  <1>3. from \in Nat /\ from < extent
    <2>1. CASE notes = <<>>
      BY <2>1 DEF EmitCheckpoint, FirstUncovered
    <2>2. CASE notes # <<>>
      <3>1. Len(notes) \in 1..Len(notes)
        BY <1>2, <2>2 DEF Base, IsSeq
      <3>2. notes[Len(notes)].seq_to \in Nat
        BY <3>1 DEF NotesInv, OwnNote
      <3> QED
        BY <2>2, <3>2 DEF EmitCheckpoint, FirstUncovered
    <2> QED
      BY <2>1, <2>2
  <1>4. size \in Nat \ {0}
    BY <1>2, <1>3
  <1>5. h = Leaves(from, extent - 1)
    <2>1. extent - 1 - from + 1 = size
      BY <1>2, <1>3
    <2> HIDE DEF size
    <2> QED
      BY <2>1 DEF Leaves
  <1>6. Len(h) = size /\ h[size] = RecordHash(extent - 1)
    <2>1. h = [i \in 1..size |-> h[i]]
      OBVIOUS
    <2>2. h[size] = RecordHash(from + size - 1)
      BY <1>4
    <2>3. from + size - 1 = extent - 1
      BY <1>2, <1>3
    <2>4. Len(h) = size
      <3> HIDE DEF h, size
      <3> QED BY <1>4, <2>1, FunctionSeq
    <2> HIDE DEF h, size, from
    <2> QED
      BY <2>2, <2>3, <2>4
  <1>7. from + size - 1 = extent - 1 /\ size = extent - 1 - from + 1
    BY <1>2, <1>3
  <1> DEFINE n == BuildNote(id, from, h, time, RecorderCert, prev)
  <1> HIDE DEF id, prev, from, h, size
  <1>8. /\ n.checkpoint_id = id /\ n.stream_id = StreamId
        /\ n.recorder_cert_fingerprint = RecorderCert
        /\ n.seq_from = from /\ n.seq_to = from + Len(h) - 1 /\ n.tree_size = Len(h)
        /\ n.merkle_root = MerkleRoot(h) /\ n.chain_head_hash = h[Len(h)]
        /\ n.prev_checkpoint_hash = prev
    BY DEF BuildNote
  <1>9. notes' = Append(notes, n)
    BY <1>1
  <1> HIDE DEF n
  <1>10. n.seq_to = extent - 1 /\ n.tree_size = size /\ n.chain_head_hash = RecordHash(extent - 1)
    BY <1>6, <1>7, <1>8
  <1>11. OwnNote(n, id, extent)
    BY <1>2, <1>3, <1>5, <1>7, <1>8, <1>10 DEF OwnNote
  <1> QED
    BY <1>8, <1>9, <1>11 DEF from, prev, id

LEMMA NotesNext == Base /\ NotesInv /\ [Next]_systemVars => NotesInv'
  <1> SUFFICES ASSUME Base, NotesInv, [Next]_systemVars PROVE NotesInv'
    OBVIOUS
  <1>a. extent \in Nat /\ Len(notes) \in Nat
    BY SystemAssumption, WidthAssumption DEF Base, IsSeq
  <1>1. CASE EmitCheckpoint
    <2>1. PICK n : /\ notes' = Append(notes, n)
                   /\ OwnNote(n, <<"main", Len(notes) + 1>>, extent)
                   /\ n.seq_from = FirstUncovered
                   /\ n.prev_checkpoint_hash = LastNoteHash
      BY <1>1, EmitsOwnNote
    <2> DEFINE k == Len(notes)
    <2>2. /\ Len(notes') = k + 1 /\ notes'[k + 1] = n
          /\ \A i \in 1..k : notes'[i] = notes[i]
      BY <2>1, AppendFacts DEF Base
    <2>3. extent' = extent
      BY <1>1 DEF EmitCheckpoint
    <2>4. ASSUME NEW i \in 1..k
          PROVE  /\ OwnNote(notes'[i], <<"main", i>>, extent')
                 /\ \A j \in 1..(i - 1) : notes'[j].seq_to < notes'[i].seq_from
                 /\ notes'[i].prev_checkpoint_hash
                       = IF i = 1 THEN None ELSE Some(NoteHash(notes'[i - 1]))
      <3>1. /\ OwnNote(notes[i], <<"main", i>>, extent)
            /\ \A j \in 1..(i - 1) : notes[j].seq_to < notes[i].seq_from
            /\ notes[i].prev_checkpoint_hash
                  = IF i = 1 THEN None ELSE Some(NoteHash(notes[i - 1]))
        BY DEF NotesInv
      <3>2. notes'[i] = notes[i] /\ \A j \in 1..(i - 1) : notes'[j] = notes[j]
        BY <1>a, <2>2
      <3>3. i # 1 => i - 1 \in 1..(i - 1)
        BY <1>a
      <3> QED
        BY <2>3, <3>1, <3>2, <3>3 DEF OwnNote
    <2>5. /\ OwnNote(n, <<"main", k + 1>>, extent')
          /\ \A j \in 1..k : notes'[j].seq_to < n.seq_from
          /\ n.prev_checkpoint_hash = IF k + 1 = 1 THEN None ELSE Some(NoteHash(notes'[k]))
      <3>1. OwnNote(n, <<"main", k + 1>>, extent')
        BY <2>1, <2>2, <2>3 DEF OwnNote
      <3>2. CASE k = 0
        <4>1. notes = <<>>
          BY <3>2 DEF Base, IsSeq
        <4> QED
          BY <2>1, <3>1, <3>2, <4>1 DEF LastNoteHash
      <3>3. CASE k # 0
        <4>1. notes # <<>> /\ k \in 1..k
          BY <1>a, <3>3
        <4>2. /\ n.seq_from = notes[k].seq_to + 1
              /\ n.prev_checkpoint_hash = Some(NoteHash(notes[k]))
          BY <2>1, <4>1 DEF FirstUncovered, LastNoteHash
        <4>3. /\ notes[k].seq_from \in Nat /\ notes[k].seq_to \in Nat
              /\ notes[k].seq_from <= notes[k].seq_to
              /\ \A j \in 1..(k - 1) : notes[j].seq_to < notes[k].seq_from
          BY <4>1 DEF NotesInv, OwnNote
        <4>4. \A j \in 1..k : notes[j].seq_to \in Nat
          BY DEF NotesInv, OwnNote
        <4>5. ASSUME NEW j \in 1..k PROVE notes[j].seq_to < notes[k].seq_to + 1
          <5>1. j = k \/ j \in 1..(k - 1)
            BY <1>a
          <5> QED
            BY <4>3, <4>4, <5>1
        <4> QED
          BY <1>a, <2>2, <3>1, <3>3, <4>1, <4>2, <4>5
      <3> QED
        BY <3>2, <3>3
    <2>6. ASSUME NEW i \in 1..Len(notes')
          PROVE  /\ OwnNote(notes'[i], <<"main", i>>, extent')
                 /\ \A j \in 1..(i - 1) : notes'[j].seq_to < notes'[i].seq_from
                 /\ notes'[i].prev_checkpoint_hash
                       = IF i = 1 THEN None ELSE Some(NoteHash(notes'[i - 1]))
      <3>1. CASE i \in 1..k
        BY <2>4, <3>1
      <3>2. CASE i = k + 1
        <4>1. i - 1 = k /\ k + 1 - 1 = k /\ i \in Int
          BY <1>a, <3>2
        <4> QED
          BY <2>2, <2>5, <3>2, <4>1
      <3> QED
        BY <1>a, <2>2, <3>1, <3>2
    <2> QED
      BY <2>6 DEF NotesInv
  <1>2. CASE ~EmitCheckpoint
    <2>1. notes' = notes /\ (extent' = extent \/ extent' = extent + 1)
      BY <1>2, Zenon DEF Next, WriteRecord, EmitForked, EmitReversed, Countersign, ExportHonest,
               CheckExported, ExportAny, CheckAny, Finish, systemVars, recordingVars
    <2> QED
      BY <1>a, <2>1 DEF NotesInv, OwnNote
  <1> QED
    BY <1>1, <1>2

-----------------------------------------------------------------------------
(* The accepted checkpoints are the first ones. *)

\* A nonempty set of natural numbers has a least element.
LEMMA LeastNat ==
    ASSUME NEW T \in SUBSET Nat, T # {}
    PROVE  \E x \in T : \A y \in T : x <= y
  <1>1. PICK x \in T : \A y \in T : ~(<<y, x>> \in OpToRel(<, Nat))
    BY NatLessThanWellFounded, WFMin, Zenon
  <1>2. \A y \in T : ~(y < x)
    BY <1>1 DEF OpToRel
  <1> QED
    BY <1>2

\* A set of numbers that holds the predecessor of each but 1 is an initial part.
LEMMA ClosedIsInitial ==
    ASSUME NEW n \in Nat, NEW A, A \subseteq 1..n, \A i \in A : i > 1 => i - 1 \in A
    PROVE  \E k \in 0..n : A = 1..k
  <1> DEFINE missing == {i \in 1..(n + 1) : i \notin A}
  <1>1. n + 1 \in missing /\ missing \subseteq Nat
    OBVIOUS
  <1>2. PICK m \in missing : \A y \in missing : m <= y
    <2> HIDE DEF missing
    <2> QED BY <1>1, LeastNat
  <1>3. m \in 1..(n + 1) /\ m \notin A
    OBVIOUS
  <1>4. \A i \in 1..(n + 1) : i < m => i \in A
    <2> TAKE i \in 1..(n + 1)
    <2>1. i \notin A => m <= i
      BY <1>2
    <2> QED
      BY <1>3, <2>1
  <1> HIDE DEF missing
  <1> DEFINE above == {i \in A : i > m}
  <1>5. above = {}
    <2> SUFFICES ASSUME above # {} PROVE FALSE
      OBVIOUS
    <2>1. above \subseteq Nat
      <3>1. ASSUME NEW i \in above PROVE i \in Nat
        <4>1. i \in 1..n
          OBVIOUS
        <4> QED
          BY <4>1
      <3> QED
        BY <3>1
    <2>2. PICK x \in above : \A y \in above : x <= y
      <3> HIDE DEF above
      <3> QED BY <2>1, LeastNat
    <2>3. x \in A /\ x \in Int /\ x > m
      OBVIOUS
    <2>4. x - 1 \in A
      BY <1>3, <2>3
    <2>5. x - 1 # m
      BY <1>3, <2>4
    <2>6. x - 1 \in above
      BY <1>3, <2>3, <2>4, <2>5
    <2>7. x <= x - 1
      BY <2>2, <2>6
    <2> QED
      BY <2>3, <2>7
  <1>6. \A i \in A : i <= m - 1 /\ i \in 1..n
    <2> TAKE i \in A
    <2>1. ~(i > m) /\ i # m /\ i \in 1..n
      BY <1>3, <1>5
    <2> QED
      BY <1>3, <2>1
  <1>7. A = 1..(m - 1)
    <2>1. ASSUME NEW i \in A PROVE i \in 1..(m - 1)
      BY <1>3, <1>6
    <2>2. ASSUME NEW i \in 1..(m - 1) PROVE i \in A
      BY <1>3, <1>4
    <2> QED
      BY <2>1, <2>2
  <1> QED
    BY <1>3, <1>7

\* The ids kept are those of the notes whose digests are, along with the links of
\* these; and a verdict without error has looked at the links.
AcceptedInv ==
    /\ stage = "recording" =>
          checkpoint_note_hashes = {} /\ valid_checkpoint_ranges = {} /\ findings = {}
    /\ \A v \in valid_checkpoint_ranges :
          \E n \in Signed : /\ v.id = n.checkpoint_id
                            /\ NoteHash(n) \in checkpoint_note_hashes
    /\ \A n \in Signed : NoteHash(n) \in checkpoint_note_hashes =>
          /\ n.checkpoint_id \in Accepted
          /\ n.prev_checkpoint_hash # None =>
                Get(n.prev_checkpoint_hash) \in checkpoint_links
    /\ stage = "done" /\ Clean => LinksResolve

LEMMA AcceptedNext == Base /\ AcceptedInv /\ [Next]_systemVars => AcceptedInv'
  <1> SUFFICES ASSUME Base, AcceptedInv, [Next]_systemVars PROVE AcceptedInv'
    OBVIOUS
  <1>1. CASE UNCHANGED systemVars
    BY <1>1 DEF systemVars, recordingVars, checkpointVars, inputVars, derivedVars, AcceptedInv,
                Accepted, Signed, Clean, LinksResolve
  <1>2. CASE Records \/ Exports
    <2>1. UNCHANGED derivedVars /\ stage = "recording" /\ stage' # "done"
      BY <1>2 DEF Records, Exports, checkpointVars
    <2> QED
      BY <2>1 DEF derivedVars, AcceptedInv
  <1>3. CASE ReadsListable
    <2>1. PICK bc : Reads(bc) /\ Listable(bc)
      BY <1>3 DEF ReadsListable
    <2>2. Signed' = Signed /\ stage' = "verifying"
      BY <2>1 DEF Reads, recordingVars, Signed
    <2>3. CASE AcceptCheckpoint(bc)
      <3> DEFINE note == bc.note
                 new  == [id |-> note.checkpoint_id, seqs |-> Seqs(note),
                          digest |-> NoteHash(note)]
      <3>1. note \in Signed
        BY <2>1, <2>3, UnrejectedSigned DEF AcceptCheckpoint
      <3>2. /\ checkpoint_note_hashes' = checkpoint_note_hashes \cup {NoteHash(note)}
            /\ checkpoint_links' = checkpoint_links
                  \cup IF note.prev_checkpoint_hash = None THEN {}
                       ELSE {Get(note.prev_checkpoint_hash)}
            /\ valid_checkpoint_ranges' =
                  {v \in valid_checkpoint_ranges : v.id # note.checkpoint_id} \cup {new}
        BY <2>3 DEF AcceptCheckpoint
      <3>3. new.id = note.checkpoint_id
        OBVIOUS
      <3> HIDE DEF note, new
      <3>4. Accepted \subseteq Accepted' /\ note.checkpoint_id \in Accepted'
        <4>1. new \in valid_checkpoint_ranges'
          BY <3>2
        <4>2. note.checkpoint_id \in Accepted'
          BY <3>3, <4>1 DEF Accepted
        <4>3. ASSUME NEW v \in valid_checkpoint_ranges PROVE v.id \in Accepted'
          <5>1. CASE v.id = note.checkpoint_id
            BY <4>2, <5>1
          <5>2. CASE v.id # note.checkpoint_id
            BY <3>2, <5>2 DEF Accepted
          <5> QED
            BY <5>1, <5>2
        <4> QED
          BY <4>2, <4>3 DEF Accepted
      <3>5. ASSUME NEW v \in valid_checkpoint_ranges'
            PROVE  \E n \in Signed : /\ v.id = n.checkpoint_id
                                     /\ NoteHash(n) \in checkpoint_note_hashes'
        BY <3>1, <3>2, <3>3 DEF AcceptedInv
      <3>6. ASSUME NEW n \in Signed, NoteHash(n) \in checkpoint_note_hashes'
            PROVE  /\ n.checkpoint_id \in Accepted'
                   /\ n.prev_checkpoint_hash # None =>
                         Get(n.prev_checkpoint_hash) \in checkpoint_links'
        <4>1. CASE NoteHash(n) \in checkpoint_note_hashes
          BY <3>2, <3>4, <4>1 DEF AcceptedInv
        <4>2. CASE n = note
          BY <3>2, <3>4, <4>2
        <4> QED
          BY <3>2, <3>6, <4>1, <4>2 DEF NoteHash
      <3> QED
        BY <2>2, <3>5, <3>6 DEF AcceptedInv
    <2>4. CASE ~AcceptCheckpoint(bc)
      <3>1. UNCHANGED <<checkpoint_note_hashes, checkpoint_links, valid_checkpoint_ranges>>
        BY <2>1, <2>4 DEF Reads, VerifyCheckpoint, RejectCheckpoint, RejectRoot,
                          RejectCountersignature
      <3> QED
        BY <2>2, <3>1 DEF AcceptedInv, Accepted
    <2> QED
      BY <2>3, <2>4
  <1>4. CASE Finish
    <2>1. /\ Signed' = Signed /\ stage' = "done"
          /\ UNCHANGED <<checkpoint_note_hashes, checkpoint_links, valid_checkpoint_ranges>>
          /\ findings' = findings \cup CoverageFindings(pinned)
      BY <1>4 DEF Finish, CrossCheck, recordingVars, Signed
    <2>2. Clean' => LinksResolve
      BY <2>1 DEF Clean, CoverageFindings, ErrorClasses
    <2> QED
      BY <2>1, <2>2 DEF AcceptedInv, Accepted, LinksResolve
  <1> QED
    BY <1>1, <1>2, <1>3, <1>4, BaseSteps

\* For any bundle of a recorder that signed one history: when the verdict has no
\* error, the accepted checkpoints are the recorder's first ones, without a hole.
\* Each note carries the digest of the one before it, an accepted note's link
\* must be the digest of an accepted note, and digests determine notes.
THEOREM PrefixAccepted == Spec => []CheckpointPrefix
  <1>1. SystemInit => NotesInv /\ AcceptedInv
    <2>1. SystemInit => Len(notes) = 0 /\ Signed = {}
      BY DEF SystemInit, Signed
    <2> QED
      BY <2>1 DEF SystemInit, CheckpointsInit, NotesInv, AcceptedInv
  <1>2. ASSUME Base, NotesInv, AcceptedInv PROVE CheckpointPrefix
    <2> SUFFICES ASSUME stage = "done", Clean, forks = {}
                 PROVE  \E k \in 0..Len(notes) : Accepted = {<<"main", i>> : i \in 1..k}
      BY DEF CheckpointPrefix
    <2>1. Len(notes) \in Nat /\ DOMAIN notes = 1..Len(notes)
      BY <1>2 DEF Base, IsSeq
    <2>2. Signed = {notes[i] : i \in 1..Len(notes)}
      BY <2>1 DEF Signed
    <2>3. \A i \in 1..Len(notes) : notes[i].checkpoint_id = <<"main", i>>
      BY <1>2 DEF NotesInv, OwnNote
    <2>4. LinksResolve
      BY <1>2 DEF AcceptedInv
    <2> DEFINE A == {i \in 1..Len(notes) : NoteHash(notes[i]) \in checkpoint_note_hashes}
    <2>5. Accepted = {<<"main", i>> : i \in A}
      <3>1. ASSUME NEW v \in valid_checkpoint_ranges PROVE \E i \in A : v.id = <<"main", i>>
        <4>1. PICK n \in Signed : /\ v.id = n.checkpoint_id
                                  /\ NoteHash(n) \in checkpoint_note_hashes
          BY <1>2 DEF AcceptedInv
        <4>2. PICK i \in 1..Len(notes) : n = notes[i]
          BY <2>2
        <4> QED
          BY <2>3, <4>1, <4>2
      <3>2. ASSUME NEW i \in A PROVE <<"main", i>> \in Accepted
        BY <1>2, <2>2, <2>3 DEF AcceptedInv
      <3> QED
        BY <3>1, <3>2 DEF Accepted
    <2>6. ASSUME NEW i \in A, i > 1 PROVE i - 1 \in A
      <3>1. notes[i].prev_checkpoint_hash = Some(NoteHash(notes[i - 1]))
        <4>1. i \in 1..Len(notes) /\ i # 1
          BY <2>1, <2>6
        <4> QED
          BY <1>2, <4>1 DEF NotesInv
      <3>2. notes[i].prev_checkpoint_hash # None
            /\ Get(notes[i].prev_checkpoint_hash) = NoteHash(notes[i - 1])
        BY <3>1 DEF Some, None, Get
      <3>3. NoteHash(notes[i - 1]) \in checkpoint_links
        BY <1>2, <2>2, <3>2 DEF AcceptedInv
      <3> QED
        BY <2>1, <2>4, <2>6, <3>3 DEF LinksResolve
    <2>7. PICK k \in 0..Len(notes) : A = 1..k
      <3>1. A \subseteq 1..Len(notes)
        OBVIOUS
      <3> HIDE DEF A
      <3> QED
        BY <2>1, <2>6, <3>1, ClosedIsInitial
    <2> QED
      BY <2>5, <2>7
  <1> QED
    BY <1>1, <1>2, BaseInit, BaseNext, NotesNext, AcceptedNext, PTL DEF Spec

-----------------------------------------------------------------------------
(* Exports of the recorder. *)

\* The mark kept is the highest one asserted.
HighestAsserted ==
    /\ countersigned_high_water # None =>
          \E bc \in Listed : /\ AssertedHighWater(bc) # None
                             /\ Get(AssertedHighWater(bc)) = Get(countersigned_high_water)
    /\ \A bc \in Listed : AssertedHighWater(bc) # None =>
          /\ countersigned_high_water # None
          /\ Get(countersigned_high_water) >= Get(AssertedHighWater(bc))

\* The exporter's list holds the first notes, in order; each was accepted and
\* attests its range if that was exported, and no error was found.
HonestInv ==
    scenario.honest =>
       /\ console_keys = scenario.console_keys
       /\ \A s \in DOMAIN hashes_by_seq : hashes_by_seq[s] = RecordHash(s)
       /\ stage = "recording" => checked = <<>>
       /\ Len(checked) <= Len(notes)
       /\ \A j \in 1..Len(checked) :
             /\ NoteHash(notes[j]) \in checkpoint_note_hashes
             /\ Seqs(notes[j]) \subseteq DOMAIN hashes_by_seq => Seqs(notes[j]) \subseteq attested_seqs
       /\ \A r \in ranges : \E j \in 1..Len(checked) : r = RangeOf(notes[j])
       /\ LinksResolve
       /\ HighestAsserted
       /\ stage # "done" => Clean
       /\ HonestExportExact
       /\ HonestExportAttested

\* The records of a note of the recorder match its root if all were exported.
LEMMA OwnRootMatches ==
    ASSUME Base, NEW note, WellFormed(note), NEW id, OwnNote(note, id, extent),
           \A s \in DOMAIN hashes_by_seq : hashes_by_seq[s] = RecordHash(s)
    PROVE  /\ ~RootMismatch(note)
           /\ Seqs(note) \subseteq DOMAIN hashes_by_seq => FullyExported(note)
  <1> DEFINE from == note.seq_from
             to   == note.seq_to
             size == to - from + 1
  <1>1. from \in Nat /\ to \in Nat /\ from <= to
    BY DEF OwnNote
  <1>2. Seqs(note) = from..to /\ size \in Nat \ {0}
    BY <1>1 DEF Seqs
  <1>3. /\ FullyExported(note) <=> Present(note) = Seqs(note)
        /\ Len(Covered(note)) = Cardinality(Present(note))
        /\ Cardinality(Seqs(note)) = size
    BY <1>1, RangeSize
  <1>4. ASSUME Seqs(note) \subseteq DOMAIN hashes_by_seq PROVE FullyExported(note)
    <2>1. ASSUME NEW s \in Seqs(note) PROVE from..s \subseteq DOMAIN hashes_by_seq
      BY <1>1, <1>2, <1>4
    <2> QED
      BY <1>3, <2>1 DEF Present
  <1>5. ASSUME FullyExported(note) PROVE VerifyRoot(note, Covered(note))
    <2>1. Cardinality(Present(note)) = size /\ Len(Covered(note)) = size
      BY <1>3, <1>5
    <2>2. Covered(note) = [i \in 1..size |-> hashes_by_seq[from + i - 1]]
      BY <2>1 DEF Covered
    <2>3. ASSUME NEW i \in 1..size PROVE hashes_by_seq[from + i - 1] = RecordHash(from + i - 1)
      <3>1. from + i - 1 \in Seqs(note)
        BY <1>1, <1>2
      <3> QED
        BY <1>5, <3>1, WholeRange
    <2>4. Covered(note) = Leaves(from, to)
      BY <2>2, <2>3 DEF Leaves
    <2>5. Covered(note)[size] = RecordHash(to)
      <3>1. size \in 1..size /\ from + size - 1 = to
        BY <1>1, <1>2
      <3> HIDE DEF size
      <3> QED
        BY <2>2, <2>3, <3>1
    <2>6. Covered(note) # <<>>
      <3>1. size # 0
        BY <1>2
      <3> HIDE DEF size
      <3> QED
        BY <2>1, <3>1
    <2>7. /\ note.tree_size = size /\ note.merkle_root = MerkleRoot(Leaves(from, to))
          /\ note.chain_head_hash = RecordHash(to)
      BY DEF OwnNote
    <2> HIDE DEF size, from, to
    <2> QED
      BY <2>1, <2>4, <2>5, <2>6, <2>7 DEF VerifyRoot
  <1> QED
    BY <1>4, <1>5 DEF RootMismatch

\* What the exporter lists is accepted without an error.
LEMMA OwnNoteAccepted ==
    ASSUME Base, NotesInv, HonestInv, CheckExported
    PROVE  \E bc : /\ Reads(bc) /\ Listable(bc) /\ AcceptCheckpoint(bc)
                   /\ Len(checked) + 1 \in 1..Len(notes)
                   /\ bc.note = notes[Len(checked) + 1]
                   /\ NoteFindings(bc.note) \cap ErrorClasses = {}
  <1> DEFINE k    == Len(checked) + 1
             note == notes[k]
             own  == CountersignaturesOf(note)
             cs   == IF own = {} THEN None ELSE Some(CHOOSE c \in own : TRUE)
             bc   == Checkpoint(note, Signature(RecorderKey, note), cs)
  <1>1. /\ scenario.honest /\ Reads(bc) /\ Len(checked) < Len(notes)
    BY DEF CheckExported, Reads
  <1>2. Len(checked) \in Nat /\ Len(notes) \in Nat /\ DOMAIN notes = 1..Len(notes)
    BY DEF Base, IsSeq
  <1>3. k \in 1..Len(notes)
    BY <1>1, <1>2
  <1>4. note \in Signed /\ WellFormed(note) /\ OwnNote(note, <<"main", k>>, extent)
    <2>1. note \in Signed
      BY <1>2, <1>3 DEF Signed
    <2> HIDE DEF k
    <2> QED
      BY <1>3, <2>1 DEF Base, NotesInv
  <1>5. cs = None \/ \E c \in countersignatures : cs = Some(Countersigned(c, ConsoleKey))
    <2>1. CASE own # {}
      <3>1. PICK c : c \in own /\ cs = Some(c)
        BY <2>1
      <3> QED
        BY <3>1 DEF CountersignaturesOf
    <2> QED
      BY <2>1
  <1>6. bc.note = note /\ bc.signature = Signature(RecorderKey, note) /\ bc.countersignature = cs
    BY DEF Checkpoint
  <1> HIDE DEF bc, cs, own, note
  <1>7. Listable(bc)
    BY <1>4, <1>5, <1>6 DEF Listable, Countersigned, Some, None, Get
  <1>8. Rejection(bc) = None
    <2>1. /\ note.stream_id = StreamId /\ note.recorder_cert_fingerprint = RecorderCert
          /\ note.ts_wall \in scenario.times
      BY <1>4 DEF OwnNote, WellFormed
    <2>2. RecorderCert \in DOMAIN cert_map /\ cert_map[RecorderCert] = RecorderKey
      BY DEF Base
    <2>3. ~RevokedWhenSigned(note)
      <3>1. scenario \in Scenarios /\ revocations = scenario.revocations
        BY DEF Base
      <3>2. ASSUME revocations # None, NEW r \in Get(revocations), r.cert = RecorderCert,
                   r.effective_at # None, note.ts_wall # None
            PROVE  ~(Get(note.ts_wall) >= Get(r.effective_at))
        <4>1. Get(note.ts_wall) < Get(r.effective_at)
          BY <1>1, <2>1, <3>1, <3>2, HonestAssumption
        <4>2. Get(note.ts_wall) \in Int /\ Get(r.effective_at) \in Int
          BY <2>1, <3>1, <3>2, SystemAssumption
        <4> QED
          BY <4>1, <4>2
      <3> QED
        BY <2>1, <3>2 DEF RevokedWhenSigned, IsRevokedAt
    <2> QED
      BY <1>6, <2>1, <2>2, <2>3 DEF Rejection
  <1>9. ~CountersignatureInvalid(bc)
    <2>1. console_keys = {} \/ ConsoleKey \in console_keys
      BY <1>1, HonestAssumption DEF HonestInv, Base
    <2>2. CASE \E c \in countersignatures : cs = Some(Countersigned(c, ConsoleKey))
      <3>1. PICK c : cs = Some(Countersigned(c, ConsoleKey))
        BY <2>2
      <3>2. Get(cs).signature = Signature(ConsoleKey, Get(cs).note)
        BY <3>1 DEF Countersigned, Some, Get
      <3> QED
        BY <1>6, <2>1, <3>2 DEF CountersignatureInvalid, CountersignatureVerifies
    <2> QED
      BY <1>5, <1>6, <2>2 DEF CountersignatureInvalid
  <1>10. ~RootMismatch(note)
    BY <1>1, <1>4, OwnRootMatches DEF HonestInv
  <1>11. ~Forks(note)
    <2> SUFFICES ASSUME NEW r \in ranges, r.from = note.seq_from PROVE FALSE
      BY DEF Forks
    <2>1. PICK j \in 1..Len(checked) : r = RangeOf(notes[j])
      BY <1>1 DEF HonestInv
    <2>2. r.from = notes[j].seq_from
      BY <2>1 DEF RangeOf
    <2>3. j \in 1..(k - 1) /\ j \in 1..Len(notes)
      BY <1>1, <1>2, <2>1
    <2>4. notes[j].seq_to < note.seq_from
      BY <1>3, <2>3 DEF NotesInv, note
    <2>5. notes[j].seq_from \in Nat /\ notes[j].seq_to \in Nat /\ notes[j].seq_from <= notes[j].seq_to
      BY <2>3 DEF NotesInv, OwnNote
    <2> QED
      BY <2>2, <2>4, <2>5
  <1>12. NoteFindings(note) \cap ErrorClasses = {}
    BY <1>10, <1>11 DEF NoteFindings, ErrorClasses
  <1>13. AcceptCheckpoint(bc)
    BY <1>1, <1>6, <1>8, <1>9, <1>10 DEF Reads, VerifyCheckpoint, RejectCheckpoint, RejectRoot,
                                         RejectCountersignature
  <1> QED
    BY <1>1, <1>3, <1>6, <1>7, <1>12, <1>13 DEF note

\* An accepted checkpoint keeps the mark the highest.
LEMMA HighestKept ==
    ASSUME Base, MarksInv, HighestAsserted, NEW bc, Reads(bc), Listable(bc), AcceptCheckpoint(bc)
    PROVE  HighestAsserted'
  <1> DEFINE a == AssertedHighWater(bc)
             c == countersigned_high_water
  <1>1. UNCHANGED lookupVars /\ Listed' = Listed \cup {bc}
    BY ReadFacts
  <1>2. \A x : AssertedHighWater(x)' = AssertedHighWater(x)
    BY <1>1, JudgedAlike
  <1>3. IsMark(a) /\ IsMark(c)
    BY DEF Listable, AssertedHighWater, IsMark, Base, MarksInv
  <1>4. c' = IF a = None THEN c ELSE MaxWith(c, Get(a))
    BY DEF AcceptCheckpoint, Raised
  <1>5. \A x \in Listed : IsMark(AssertedHighWater(x))
    BY DEF MarksInv
  <1>6. CASE a = None
    BY <1>1, <1>2, <1>4, <1>6 DEF HighestAsserted
  <1>7. CASE a # None
    <2>1. /\ c' # None /\ Get(c') \in Int /\ Get(c') >= Get(a)
          /\ c # None => Get(c') >= Get(c)
      BY <1>3, <1>4, <1>7, MaxWithFacts DEF IsMark
    <2>2. c' = c \/ Get(c') = Get(a)
      BY <1>4, <1>7 DEF MaxWith, Some, Get
    <2> QED
      BY <1>1, <1>2, <1>3, <1>5, <1>7, <2>1, <2>2 DEF HighestAsserted, IsMark
  <1> QED
    BY <1>6, <1>7

\* The extent required is the highest of the marks the verifier was told of.
LEMMA TruncatedExactly ==
    ASSUME Base, MarksInv, HighestAsserted
    PROVE  Truncated(pinned) <=> \E m \in Marks : \A s \in DOMAIN hashes_by_seq : s < m
  <1> DEFINE c == countersigned_high_water
             r == RequiredHighWater(pinned)
  <1>1. /\ IsMark(c) /\ IsMark(pinned)
        /\ \A x \in Listed : IsMark(AssertedHighWater(x))
    BY DEF MarksInv, Base, IsMark
  <1>2. /\ IsMark(r)
        /\ r # None => \/ pinned # None /\ Get(r) = Get(pinned)
                       \/ c # None /\ Get(r) = Get(c)
        /\ pinned # None => r # None /\ Get(r) >= Get(pinned)
        /\ c # None => r # None /\ Get(r) >= Get(c)
    <2> HIDE DEF c
    <2> QED
      BY <1>1 DEF RequiredHighWater, MaxWith, IsMark, Some, None, Get, c
  <1>3. \A m : m \in Marks <=> \/ pinned # None /\ m = Get(pinned)
                               \/ \E x \in Listed : /\ AssertedHighWater(x) # None
                                                    /\ m = Get(AssertedHighWater(x))
    <2> TAKE m
    <2>1. m \in Marks <=> \E o \in ({pinned} \cup {AssertedHighWater(checked[i]) : i \in DOMAIN checked})
                                      \ {None} : m = Get(o)
      BY Zenon DEF Marks
    <2>2. \A o : o \in {AssertedHighWater(checked[i]) : i \in DOMAIN checked}
                   <=> \E x \in Listed : o = AssertedHighWater(x)
      BY DEF Listed
    <2> QED
      BY <2>1, <2>2
  <1>4. \A s \in DOMAIN hashes_by_seq : s \in Int
    BY SystemAssumption, WidthAssumption DEF Base
  <1>5. r # None => Get(r) \in Marks
    BY <1>2, <1>3 DEF HighestAsserted
  <1>6. ASSUME NEW m \in Marks PROVE r # None /\ Get(r) \in Int /\ m \in Int /\ m <= Get(r)
    <2>1. CASE pinned # None /\ m = Get(pinned)
      BY <1>1, <1>2, <2>1 DEF IsMark
    <2>2. ASSUME NEW x \in Listed, AssertedHighWater(x) # None, m = Get(AssertedHighWater(x))
          PROVE  r # None /\ Get(r) \in Int /\ m \in Int /\ m <= Get(r)
      <3>1. c # None /\ Get(c) >= m
        BY <2>2 DEF HighestAsserted
      <3>2. m \in Int /\ Get(c) \in Int
        BY <1>1, <2>2, <3>1 DEF IsMark
      <3> QED
        BY <1>2, <3>1, <3>2 DEF IsMark
    <2> QED
      BY <1>3, <2>1, <2>2
  <1> HIDE DEF r
  <1>7. Truncated(pinned) <=> r # None /\ \A s \in DOMAIN hashes_by_seq : s < Get(r)
    BY DEF Truncated, r
  <1>8. ASSUME NEW m \in Marks, \A s \in DOMAIN hashes_by_seq : s < m PROVE Truncated(pinned)
    <2>1. r # None /\ Get(r) \in Int /\ m \in Int /\ m <= Get(r)
      BY <1>6
    <2> QED
      BY <1>4, <1>7, <1>8, <2>1
  <1> QED
    BY <1>5, <1>7, <1>8

\* No extent beyond the stream's is required.
LEMMA WholeNotTruncated ==
    ASSUME Base, DerivedInv, extent - 1 \in DOMAIN hashes_by_seq
    PROVE  ~Truncated(pinned)
  <1>1. extent \in Int
    BY SystemAssumption, WidthAssumption DEF Base
  <1>2. RequiredHighWater(pinned) # None => /\ Get(RequiredHighWater(pinned)) \in Int
                                            /\ Get(RequiredHighWater(pinned)) < extent
    BY DEF DerivedInv, Reached, RequiredHighWater, MaxWith, Some, None, Get
  <1> QED
    BY <1>1, <1>2 DEF Truncated

\* Before anything is read, only the records matter.
LEMMA HonestUnread ==
    ASSUME HonestInv, stage = "recording", stage' # "done",
           UNCHANGED <<scenario, lookupVars, derivedVars>>, IsSeq(notes'),
           scenario.honest => \A s \in DOMAIN hashes_by_seq' : hashes_by_seq'[s] = RecordHash(s)
    PROVE  HonestInv'
  <1> SUFFICES ASSUME scenario'.honest PROVE HonestInv'
    BY DEF HonestInv
  <1>1. scenario' = scenario /\ checked = <<>> /\ checked' = <<>>
    BY DEF HonestInv, derivedVars
  <1>2. Len(checked) = 0 /\ Len(checked') = 0 /\ Len(notes') \in Nat
    BY <1>1 DEF IsSeq
  <1>3. ranges' = {} /\ Listed' = Listed
    BY <1>1, <1>2 DEF HonestInv, derivedVars, Listed
  <1>4. HighestAsserted'
    BY <1>1, <1>3, JudgedAlike DEF HonestInv, HighestAsserted, derivedVars
  <1>5. LinksResolve' /\ Clean'
    BY <1>1 DEF HonestInv, derivedVars, LinksResolve, Clean
  <1>6. console_keys' = scenario'.console_keys
    BY <1>1 DEF HonestInv, lookupVars
  <1>7. HonestExportExact' /\ HonestExportAttested'
    BY DEF HonestExportExact, HonestExportAttested
  <1> QED
    BY <1>1, <1>2, <1>3, <1>4, <1>5, <1>6, <1>7 DEF HonestInv

\* Reading the next of the exporter's checkpoints.
LEMMA HonestRead ==
    ASSUME Base, NotesInv, MarksInv, HonestInv, CheckExported
    PROVE  HonestInv'
  <1> DEFINE k == Len(checked)
  <1>1. PICK bc : /\ Reads(bc) /\ Listable(bc) /\ AcceptCheckpoint(bc)
                  /\ k + 1 \in 1..Len(notes)
                  /\ bc.note = notes[k + 1]
                  /\ NoteFindings(bc.note) \cap ErrorClasses = {}
    BY OwnNoteAccepted
  <1> DEFINE note == notes[k + 1]
  <1>2. /\ scenario.honest /\ stage = "verifying" /\ stage' = "verifying"
        /\ UNCHANGED <<scenario, notes, console_keys, hashes_by_seq>>
    BY <1>1 DEF CheckExported, Reads, VerifyCheckpoint, inputVars, recordingVars
  <1>3. k \in Nat /\ Len(checked') = k + 1
    <2>1. checked' = Append(checked, bc)
      BY <1>1 DEF Reads, VerifyCheckpoint
    <2> QED
      BY <2>1, AppendFacts DEF Base
  <1>4. /\ checkpoint_note_hashes' = checkpoint_note_hashes \cup {NoteHash(note)}
        /\ checkpoint_links' = checkpoint_links
              \cup IF note.prev_checkpoint_hash = None THEN {}
                   ELSE {Get(note.prev_checkpoint_hash)}
        /\ attested_seqs' = attested_seqs \cup IF FullyExported(note) THEN Seqs(note) ELSE {}
        /\ ranges' = ranges \cup {RangeOf(note)}
        /\ findings' = findings \cup NoteFindings(note) \cup CountersignatureFindings(bc)
    BY <1>1 DEF AcceptCheckpoint, Attest, RecordRange, RangeOf
  <1>5. ASSUME NEW j \in 1..(k + 1)
        PROVE  /\ NoteHash(notes[j]) \in checkpoint_note_hashes'
               /\ Seqs(notes[j]) \subseteq DOMAIN hashes_by_seq => Seqs(notes[j]) \subseteq attested_seqs'
    <2>1. CASE j \in 1..k
      BY <1>2, <1>4, <2>1 DEF HonestInv
    <2>2. CASE j = k + 1
      <3>1. WellFormed(note) /\ OwnNote(note, <<"main", k + 1>>, extent)
        <4>1. note \in Signed
          BY <1>1 DEF Signed, Base, IsSeq
        <4> QED
          BY <1>1, <4>1 DEF Base, NotesInv
      <3>2. Seqs(note) \subseteq DOMAIN hashes_by_seq => FullyExported(note)
        BY <1>2, <3>1, OwnRootMatches DEF HonestInv
      <3> HIDE DEF note
      <3>3. Seqs(note) \subseteq DOMAIN hashes_by_seq => Seqs(note) \subseteq attested_seqs'
        BY <1>4, <3>2
      <3> QED
        BY <1>4, <2>2, <3>3 DEF note
    <2> QED
      BY <1>3, <2>1, <2>2
  <1>6. \A r \in ranges' : \E j \in 1..(k + 1) : r = RangeOf(notes[j])
    <2>1. ASSUME NEW r \in ranges PROVE \E j \in 1..(k + 1) : r = RangeOf(notes[j])
      <3>1. PICK j \in 1..k : r = RangeOf(notes[j])
        BY <1>2 DEF HonestInv
      <3> QED
        BY <1>3, <3>1
    <2>2. k + 1 \in 1..(k + 1)
      BY <1>3
    <2> QED
      BY <1>4, <2>1, <2>2
  <1>7. LinksResolve'
    <2>1. note.prev_checkpoint_hash # None =>
             Get(note.prev_checkpoint_hash) \in checkpoint_note_hashes
      <3>1. PICK i \in 1..Len(notes) : i = k + 1
        BY <1>1
      <3>2. notes[i].prev_checkpoint_hash = IF i = 1 THEN None ELSE Some(NoteHash(notes[i - 1]))
        BY DEF NotesInv
      <3>3. CASE i # 1
        <4>1. i - 1 \in 1..k
          BY <1>3, <3>1, <3>3
        <4>2. NoteHash(notes[i - 1]) \in checkpoint_note_hashes
          BY <1>2, <4>1 DEF HonestInv
        <4> QED
          BY <3>1, <3>2, <3>3, <4>2 DEF Some, Get
      <3> QED
        BY <3>1, <3>2, <3>3
    <2> QED
      BY <1>2, <1>4, <2>1 DEF HonestInv, LinksResolve
  <1>8. Clean'
    <2>1. CountersignatureFindings(bc) \cap ErrorClasses = {}
      BY DEF CountersignatureFindings, ErrorClasses
    <2>2. findings \cap ErrorClasses = {}
      BY <1>2 DEF HonestInv, Clean
    <2> QED
      BY <1>1, <1>4, <2>1, <2>2 DEF Clean
  <1>9. HighestAsserted'
    BY <1>1, <1>2, HighestKept DEF HonestInv
  <1>10. HonestExportExact' /\ HonestExportAttested'
    BY <1>2 DEF HonestExportExact, HonestExportAttested
  <1>11. k + 1 <= Len(notes)
    BY <1>1
  <1> HIDE DEF k
  <1> QED
    BY <1>2, <1>3, <1>5, <1>6, <1>7, <1>8, <1>9, <1>10, <1>11 DEF HonestInv, Seqs

\* The cross-checks at the end of the exporter's list.
LEMMA HonestFinish ==
    ASSUME Base, NotesInv, MarksInv, DerivedInv, HonestInv, Finish
    PROVE  HonestInv'
  <1> SUFFICES ASSUME scenario'.honest PROVE HonestInv'
    BY DEF HonestInv
  <1>1. /\ UNCHANGED <<recordingVars, lookupVars, pinned, hashes_by_seq, ranges, attested_seqs,
                       countersigned_high_water, checkpoint_note_hashes, checkpoint_links, checked>>
        /\ stage = "verifying" /\ stage' = "done"
        /\ findings' = findings \cup CoverageFindings(pinned)
    BY DEF Finish, CrossCheck, inputVars, lookupVars
  <1>2. scenario.honest /\ notes' = notes /\ extent' = extent /\ scenario' = scenario
    BY <1>1 DEF recordingVars
  <1>3. /\ LinksResolve /\ HighestAsserted /\ findings \cap ErrorClasses = {}
    BY <1>1, <1>2 DEF HonestInv, Clean
  <1>4. Marks' = Marks /\ Listed' = Listed /\ \A x : AssertedHighWater(x)' = AssertedHighWater(x)
    <2>1. \A x : AssertedHighWater(x)' = AssertedHighWater(x)
      BY <1>1, JudgedAlike
    <2> QED
      BY <1>1, <2>1 DEF Marks, Listed
  <1>5. HonestExportExact'
    <2>1. /\ "truncation_detected" \in findings' <=> Truncated(pinned)
          /\ findings' \cap ErrorClasses \subseteq {"truncation_detected"}
      BY <1>1, <1>3 DEF CoverageFindings, ErrorClasses
    <2>2. "truncation_detected" \in findings'
             <=> \E m \in Marks' : \A s \in DOMAIN hashes_by_seq' : s < m
      BY <1>1, <1>3, <1>4, <2>1, TruncatedExactly
    <2>3. extent' - 1 \in DOMAIN hashes_by_seq' => Clean'
      BY <1>1, <1>2, <2>1, WholeNotTruncated DEF Clean
    <2> QED
      BY <2>1, <2>2, <2>3 DEF HonestExportExact
  <1>6. HonestExportAttested'
    <2> SUFFICES ASSUME NEW i \in DOMAIN notes, Seqs(notes[i]) \subseteq DOMAIN hashes_by_seq
                 PROVE  Seqs(notes[i]) \subseteq attested_seqs
      BY <1>1, <1>2 DEF HonestExportAttested, Seqs
    <2>1. DOMAIN notes = 1..Len(notes) /\ Len(notes) \in Nat /\ Len(checked) \in Nat
      BY DEF Base, IsSeq
    <2>2. CASE i \in 1..Len(checked)
      BY <1>2, <2>2 DEF HonestInv
    <2>3. CASE i > Len(checked)
      <3>1. \A s \in DOMAIN hashes_by_seq : s < notes[i].seq_from
        BY <1>2, <2>3 DEF Finish
      <3>2. /\ notes[i].seq_from \in Nat /\ notes[i].seq_to \in Nat
            /\ notes[i].seq_from <= notes[i].seq_to
        BY <2>1 DEF NotesInv, OwnNote
      <3>3. notes[i].seq_from \in Seqs(notes[i])
        BY <3>2 DEF Seqs
      <3> QED
        BY <3>1, <3>2, <3>3
    <2> QED
      BY <2>1, <2>2, <2>3
  <1>7. HighestAsserted' /\ LinksResolve'
    BY <1>1, <1>3, <1>4 DEF HighestAsserted, LinksResolve
  <1>8. console_keys' = scenario'.console_keys
    BY <1>1, <1>2 DEF HonestInv, lookupVars
  <1> QED
    BY <1>1, <1>2, <1>5, <1>6, <1>7, <1>8 DEF HonestInv, Seqs

LEMMA HonestNext ==
    Base /\ NotesInv /\ MarksInv /\ DerivedInv /\ HonestInv /\ [Next]_systemVars => HonestInv'
  <1> SUFFICES ASSUME Base, NotesInv, MarksInv, DerivedInv, HonestInv, [Next]_systemVars
               PROVE  HonestInv'
    OBVIOUS
  <1>a. IsSeq(notes')
    BY BaseNext DEF Base
  <1>1. CASE Records
    <2>1. UNCHANGED <<scenario, stage, hashes_by_seq, lookupVars, derivedVars>>
          /\ stage = "recording"
      BY <1>1 DEF Records, checkpointVars, inputVars, lookupVars
    <2> QED
      BY <1>a, <2>1, HonestUnread DEF HonestInv
  <1>2. CASE ExportHonest
    <2>1. \A s \in DOMAIN hashes_by_seq' : hashes_by_seq'[s] = RecordHash(s)
      BY <1>2 DEF ExportHonest
    <2> QED
      BY <1>2, <1>a, <2>1, HonestUnread DEF ExportHonest, recordingVars, lookupVars
  <1>3. CASE ExportAny \/ CheckAny
    BY <1>3 DEF ExportAny, CheckAny, recordingVars, HonestInv
  <1>4. CASE CheckExported
    BY <1>4, HonestRead
  <1>5. CASE Finish
    BY <1>5, HonestFinish
  <1>6. CASE UNCHANGED systemVars
    <2>1. UNCHANGED <<scenario, notes, extent, stage, pinned, lookupVars, derivedVars, hashes_by_seq>>
      BY <1>6 DEF systemVars, recordingVars, checkpointVars, inputVars, lookupVars
    <2>2. /\ \A x : AssertedHighWater(x)' = AssertedHighWater(x)
          /\ Listed' = Listed
      BY <2>1, JudgedAlike DEF derivedVars, Listed
    <2>3. Marks' = Marks /\ HighestAsserted' = HighestAsserted
      BY <2>1, <2>2 DEF Marks, HighestAsserted, derivedVars
    <2>4. LinksResolve' = LinksResolve /\ Clean' = Clean
      BY <2>1 DEF derivedVars, LinksResolve, Clean
    <2> QED
      BY <2>1, <2>2, <2>3, <2>4
      DEF HonestInv, HonestExportExact, HonestExportAttested, Seqs, derivedVars, lookupVars
  <1>7. CASE WriteRecord \/ EmitCheckpoint \/ EmitForked \/ EmitReversed \/ Countersign
    BY <1>1, <1>7 DEF WriteRecord, EmitCheckpoint, EmitForked, EmitReversed, Countersign, Records
  <1> QED
    BY <1>2, <1>3, <1>4, <1>5, <1>6, <1>7 DEF Next

\* What holds of an honest scenario at all times.
LEMMA HonestAlways == Spec => []HonestInv
  <1>1. SystemInit => NotesInv
    BY DEF SystemInit, NotesInv
  <1>2. SystemInit => MarksInv
    BY DEF SystemInit, CheckpointsInit, MarksInv, Listed, IsMark
  <1>3. SystemInit => DerivedInv
    BY DEF SystemInit, CheckpointsInit, DerivedInv, Reached
  <1>4. ASSUME SystemInit PROVE HonestInv
    <2>1. Len(checked) = 0 /\ Len(notes) = 0 /\ Listed = {} /\ DOMAIN hashes_by_seq = {}
      BY <1>4 DEF SystemInit, CheckpointsInit, Listed
    <2> QED
      BY <1>4, <2>1 DEF SystemInit, CheckpointsInit, HonestInv, HighestAsserted, LinksResolve, Clean,
                        HonestExportExact, HonestExportAttested
  <1> QED
    BY <1>1, <1>2, <1>3, <1>4, BaseInit, BaseNext, NotesNext, MarksNext, DerivedNext, HonestNext, PTL
    DEF Spec

\* For any honest scenario: the verifier finds no error in what the exporter
\* wrote, but for truncation, which it reports exactly when the export stops
\* short of an extent it was told of; an export up to the end of the stream is
\* clean.  The verifier must know the console that countersigned, and the notes
\* must be older than any revocation of their certificate (HonestAssumption).
THEOREM HonestExact == Spec => []HonestExportExact
  <1>1. HonestInv => HonestExportExact
    BY DEF HonestInv, HonestExportExact
  <1> QED
    BY <1>1, HonestAlways, PTL

\* For any honest scenario: every note whose whole range was exported attests
\* all of its records.
THEOREM HonestAttested == Spec => []HonestExportAttested
  <1>1. HonestInv => HonestExportAttested
    BY DEF HonestInv, HonestExportAttested
  <1> QED
    BY <1>1, HonestAlways, PTL
=============================================================================
